---- MODULE Spec2Model ----
(***************************************************************************)
(* A model of the automation suite.                                        *)
(*                                                                         *)
(* The AirportGap client layer:                                            *)
(*   src/src/core/base_api_client.py  (BaseAPIClient)                      *)
(*   src/src/core/types.py            (APIResponse, Airport,               *)
(*                                     DistanceCalculation)                *)
(*   src/src/api/airports_client.py   (AirportsClient)                     *)
(*   src/src/core/assertions.py       (AssertionHelper)                    *)
(*   src/tests/api/                   (the response-time tests)            *)
(* The client is stateless: every operation issues one request through the *)
(* transport, normalises the response and maps it.  Its state is the       *)
(* transport's pending outcome (what the server answers), the state of the *)
(* reporting sink, and the record of the last completed call.              *)
(*                                                                         *)
(* The page objects and the test data:                                     *)
(*   src/src/core/base_page.py        (BasePage)                           *)
(*   src/src/pages/cart_page.py       (CartPage)                           *)
(*   src/src/utils/data_loader.py     (DataLoader)                         *)
(* Their state is the browser page, the screenshot path of the test        *)
(* context, the position of a clear_cart under way, the cache of the       *)
(* loader and the directory of data files.                                 *)
(*                                                                         *)
(* JSON values are tagged records.  Numbers are integers (a float whose    *)
(* value is integral); strings are TLA+ strings.                           *)
(***************************************************************************)
EXTENDS Integers, Sequences, FiniteSets, TLC

VARIABLES transport, sinkUp, last, page, context, pc, loader, disk

vars == <<transport, sinkUp, last, page, context, pc, loader, disk>>

---------------------------------------------------------------------------
(* Bounds of the model *)

\* longest `data` array the list endpoint answers with
MaxRecords == 2
\* longest list of required airport names given to verify_airports_exist
MaxRequired == 2

---------------------------------------------------------------------------
(* JSON values and the Python operations on them *)

\* Python None
None == [kind |-> "none"]
JNull == [kind |-> "null"]
JStr(s) == [kind |-> "string", s |-> s]
JNum(n) == [kind |-> "number", n |-> n]
JArr(items) == [kind |-> "array", items |-> items]
\* an object is a function from the keys it holds to their values
JObj(fields) == [kind |-> "object", fields |-> fields]
EmptyDict == JObj(<<>>)

\* isinstance(v, dict), isinstance(v, list), isinstance(v, str)
IsDict(v) == v.kind = "object"
IsList(v) == v.kind = "array"
IsStr(v) == v.kind = "string"

\* key in d, for a dict d
HasKey(d, key) == key \in DOMAIN d.fields
\* d.get(key, default), for a dict d
DictGet(d, key, default) == IF HasKey(d, key) THEN d.fields[key] ELSE default

\* bool(v): the truth value Python gives a parsed JSON value
Truthy(v) ==
    CASE v.kind = "string" -> v.s # ""
      [] v.kind = "number" -> v.n # 0
      [] v.kind = "array" -> Len(v.items) > 0
      [] v.kind = "object" -> DOMAIN v.fields # {}
      [] OTHER -> FALSE

\* an exception object: its class and its message
Exc(type, msg) == [type |-> type, msg |-> msg]
\* the AttributeError of calling .get / .upper on a value that has none
NoAttribute(v, attr) == Exc("AttributeError", [what |-> "no_attribute", of |-> v.kind, attr |-> attr])

\* the outcome of evaluating an expression: a value or a raised exception
Val(v) == [kind |-> "returned", value |-> v, exc |-> None]
Err(e) == [kind |-> "raised", value |-> None, exc |-> e]

\* one log record
Log(level, tag) == [level |-> level, tag |-> tag]

\* the outcome of an operation with its effects: the log records written,
\* the attachments handed to the reporting sink, the transport requests made
Ret(v, log, att, req) ==
    [kind |-> "returned", value |-> v, exc |-> None,
     log |-> log, attached |-> att, requests |-> req]
Raise(e, log, att, req) ==
    [kind |-> "raised", value |-> None, exc |-> e,
     log |-> log, attached |-> att, requests |-> req]

---------------------------------------------------------------------------
(* str.upper() and float() on the strings of the model *)

UpperTable ==
    ("KIX" :> "KIX") @@ ("kix" :> "KIX") @@ ("Kix" :> "KIX") @@
    ("NRT" :> "NRT") @@ ("nrt" :> "NRT") @@ ("" :> "") @@
    ("GET" :> "GET") @@ ("get" :> "GET") @@ ("POST" :> "POST") @@ ("Post" :> "POST") @@
    ("PUT" :> "PUT") @@ ("DELETE" :> "DELETE") @@ ("PATCH" :> "PATCH") @@
    ("patch" :> "PATCH") @@ ("TRACE" :> "TRACE")
\* s.upper()
Upper(s) == UpperTable[s]

NumericStrings == ("100" :> 100) @@ ("62" :> 62) @@ ("54" :> 54)
\* float(v) for a parsed JSON value v
ToFloat(v) ==
    CASE v.kind = "number" -> Val(v.n)
      [] v.kind = "string" ->
           IF v.s \in DOMAIN NumericStrings
           THEN Val(NumericStrings[v.s])
           ELSE Err(Exc("ValueError", [what |-> "float", of |-> v.s]))
      [] OTHER -> Err(Exc("TypeError", [what |-> "float", of |-> v.kind]))

---------------------------------------------------------------------------
(* BaseAPIClient *)

\* what json.loads raises on text that is not JSON
DecodeError == [kind |-> "decode_error"]

\* what response.text() raises when it fails
TextError == Exc("Error", [what |-> "text"])

\* the body _parse_response_body returns, or the exception that leaves it
Parsed(body, log) == [body |-> body, log |-> log, exc |-> None]
Unparsed(e) == [body |-> None, log |-> <<>>, exc |-> e]

\* except json.JSONDecodeError: return response.text(), a second call of
\* text() made in the handler, whose failure no clause catches
ReadAgain(resp) ==
    IF resp.text.second = "fails" THEN Unparsed(TextError) ELSE Parsed(JStr(resp.text.raw), <<>>)

\* _parse_response_body: "" for an empty body or a failing text(), the
\* text read again when it is not JSON, the parsed value otherwise
ParseResponseBody(resp) ==
    IF resp.text.kind = "fails" THEN Parsed(JStr(""), <<Log("WARNING", "parse_body")>>)
    ELSE IF resp.text.raw = "" THEN Parsed(JStr(""), <<>>)
    ELSE IF resp.text.json = DecodeError THEN ReadAgain(resp)
    ELSE Parsed(resp.text.json, <<>>)

\* TransportOperation comparing the method as it was given
TransportOperationExact(method) ==
    CASE method = "GET" -> "get"
      [] method = "POST" -> "post"
      [] method = "PUT" -> "put"
      [] method = "DELETE" -> "delete"
      [] method = "PATCH" -> "patch"
      [] OTHER -> "none"

\* the operation of request_context that method.upper() selects
TransportOperation(method) ==
    CASE Upper(method) = "GET" -> "get"
      [] Upper(method) = "POST" -> "post"
      [] Upper(method) = "PUT" -> "put"
      [] Upper(method) = "DELETE" -> "delete"
      [] Upper(method) = "PATCH" -> "patch"
      [] OTHER -> "none"

\* one call of the operation `via` of the transport, which raises or
\* answers; no call and a ValueError when the method selects none
Dispatched(via, method, t) ==
    IF via = "none"
    THEN Raise(Exc("ValueError", [what |-> "unsupported_method", method |-> method]),
               <<>>, <<>>, 0)
    ELSE IF t.kind = "error"
    THEN Raise(Exc(t.exc, [what |-> "transport", via |-> via]), <<>>, <<>>, 1)
    ELSE Ret([via |-> via] @@ t, <<>>, <<>>, 1)

\* _execute_request: the transport operation the method selects
ExecuteRequest(method, t) == Dispatched(TransportOperation(method), method, t)

\* _make_request once _execute_request has ended as ex: a failure is
\* logged and raised again, a response is parsed into the typed APIResponse
MakeRequestFrom(method, ex, parsed) ==
    IF ex.kind = "raised"
    THEN Raise(ex.exc, <<Log("INFO", "request"), Log("ERROR", "request_failed")>>,
               <<>>, ex.requests)
    ELSE IF parsed.exc # None
    THEN Raise(parsed.exc, <<Log("INFO", "request"), Log("ERROR", "request_failed")>>,
               <<>>, ex.requests)
    ELSE Ret([status_code |-> ex.value.status, body |-> parsed.body, method |-> method],
             <<Log("INFO", "request")>> \o parsed.log \o
               <<Log("INFO", "request_completed"), Log("DEBUG", "response_body")>>,
             <<>>, ex.requests)

\* the body _make_request parses: that of the response, when there is one
ParsedBodyOf(ex) ==
    IF ex.kind = "raised" THEN Parsed(None, <<>>)
    ELSE ParseResponseBody(ex.value)

ParsedRequest(method, ex) == MakeRequestFrom(method, ex, ParsedBodyOf(ex))

\* _make_request: execute, parse the body, build the typed APIResponse
MakeRequest(method, t) == ParsedRequest(method, ExecuteRequest(method, t))

\* Get sending the request a second time when the first attempt fails
GetRetrying(t) ==
    IF MakeRequest("GET", t).kind = "raised"
    THEN [MakeRequest("GET", t) EXCEPT !.requests = 2]
    ELSE MakeRequest("GET", t)

\* get / post
Get(t) == MakeRequest("GET", t)
Post(t) == MakeRequest("POST", t)

\* VerifyResponseStatus accepting every success status (2xx)
VerifyResponseStatusSuccess(response, expected_status) ==
    IF ~(200 <= response.status_code /\ response.status_code < 300)
    THEN [exc |-> Exc("AssertionError",
                      [what |-> "status", expected |-> expected_status,
                       actual |-> response.status_code, body |-> response.body]),
          log |-> <<Log("ERROR", "status")>>]
    ELSE [exc |-> None, log |-> <<Log("DEBUG", "status_ok")>>]

\* VerifyResponseStatus with a message that repeats the expected status
\* in place of the actual one
VerifyResponseStatusExpectedOnly(response, expected_status) ==
    IF response.status_code # expected_status
    THEN [exc |-> Exc("AssertionError",
                      [what |-> "status", expected |-> expected_status,
                       actual |-> expected_status, body |-> response.body]),
          log |-> <<Log("ERROR", "status")>>]
    ELSE [exc |-> None, log |-> <<Log("DEBUG", "status_ok")>>]

\* verify_response_status: the AssertionError it raises, or None
VerifyResponseStatus(response, expected_status) ==
    IF response.status_code # expected_status
    THEN [exc |-> Exc("AssertionError",
                      [what |-> "status", expected |-> expected_status,
                       actual |-> response.status_code, body |-> response.body]),
          log |-> <<Log("ERROR", "status")>>]
    ELSE [exc |-> None, log |-> <<Log("DEBUG", "status_ok")>>]

\* MissingKeys stopping at the first key that the body lacks
MissingKeysFirstOnly(body, required_keys) ==
    IF \E i \in 1..Len(required_keys) : ~HasKey(body, required_keys[i])
    THEN <<required_keys[CHOOSE i \in 1..Len(required_keys) :
                /\ ~HasKey(body, required_keys[i])
                /\ \A j \in 1..(i - 1) : HasKey(body, required_keys[j])]>>
    ELSE <<>>

\* [key for key in required_keys if key not in body]
RECURSIVE MissingKeys(_, _)
MissingKeys(body, required_keys) ==
    IF required_keys = <<>> THEN <<>>
    ELSE (IF HasKey(body, Head(required_keys)) THEN <<>> ELSE <<Head(required_keys)>>)
         \o MissingKeys(body, Tail(required_keys))

\* verify_response_contains_keys: the AssertionError it raises, or None
VerifyResponseContainsKeys(response, required_keys) ==
    IF ~IsDict(response.body)
    THEN [exc |-> Exc("AssertionError", [what |-> "not_object", of |-> response.body.kind]),
          log |-> <<>>]
    ELSE LET missing_keys == MissingKeys(response.body, required_keys)
         IN  IF missing_keys # <<>>
             THEN [exc |-> Exc("AssertionError",
                               [what |-> "missing_keys", missing |-> missing_keys,
                                available |-> DOMAIN response.body.fields]),
                   log |-> <<Log("ERROR", "missing_keys")>>]
             ELSE [exc |-> None, log |-> <<Log("DEBUG", "keys_ok")>>]

---------------------------------------------------------------------------
(* src/src/core/types.py *)

\* the Airport dataclass: the three fields are stored as given, unchecked
Airport(id, type, attributes) == [id |-> id, type |-> type, attributes |-> attributes]

\* self.attributes.get(key, ""): raises when attributes is not a dict
AttributeOf(airport, key) ==
    IF IsDict(airport.attributes)
    THEN Val(DictGet(airport.attributes, key, JStr("")))
    ELSE Err(NoAttribute(airport.attributes, "get"))

\* the properties Airport.name and Airport.iata_code
AirportName(airport) == AttributeOf(airport, "name")
AirportIataCode(airport) == AttributeOf(airport, "iata")

\* the DistanceCalculation dataclass
DistanceCalculation(from_airport, to_airport, kilometers, miles, nautical_miles) ==
    [from_airport |-> from_airport, to_airport |-> to_airport,
     kilometers |-> kilometers, miles |-> miles, nautical_miles |-> nautical_miles]

\* DistanceCalculation.is_valid_distance
IsValidDistance(d) == d.kilometers > 0 /\ d.miles > 0 /\ d.nautical_miles > 0

---------------------------------------------------------------------------
(* The reporting sink: allure.attach *)

SinkError == Exc("SinkError", [what |-> "attach"])

\* allure.attach(payload, name=name): the attachment is recorded by a sink
\* that works, and the call raises when the sink is broken
Attach(sink, name, payload) ==
    IF sink THEN Val([name |-> name, payload |-> payload]) ELSE Err(SinkError)

---------------------------------------------------------------------------
(* AirportsClient.get_all_airports *)

\* the body of the mapping loop for one element: Airport(...) built from
\* airport_data.get(...); an element without .get raises
MapAirport(airport_data) ==
    IF IsDict(airport_data)
    THEN Val(Airport(DictGet(airport_data, "id", JStr("")),
                     DictGet(airport_data, "type", JStr("")),
                     DictGet(airport_data, "attributes", EmptyDict)))
    ELSE Err(NoAttribute(airport_data, "get"))

\* MapAirports with the loop ended by the first element that raises
RECURSIVE MapAirportsAbort(_)
MapAirportsAbort(airports_data) ==
    IF airports_data = <<>> THEN [airports |-> <<>>, log |-> <<>>]
    ELSE LET one == MapAirport(Head(airports_data))
             rest == MapAirportsAbort(Tail(airports_data))
         IN  IF one.kind = "returned"
             THEN [airports |-> <<one.value>> \o rest.airports, log |-> rest.log]
             ELSE [airports |-> <<>>, log |-> <<Log("WARNING", "parse_airport")>>]

\* the mapping loop: an element whose construction raises is skipped with
\* a warning
RECURSIVE MapAirports(_)
MapAirports(airports_data) ==
    IF airports_data = <<>> THEN [airports |-> <<>>, log |-> <<>>]
    ELSE LET one == MapAirport(Head(airports_data))
             rest == MapAirports(Tail(airports_data))
         IN  IF one.kind = "returned"
             THEN [airports |-> <<one.value>> \o rest.airports, log |-> rest.log]
             ELSE [airports |-> rest.airports,
                   log |-> <<Log("WARNING", "parse_airport")>> \o rest.log]

(* The try blocks are sequences of steps.  A step takes the outcome r of   *)
(* the steps before it (the value the block holds so far, the log, the     *)
(* attachments, the requests made) and is skipped when one of them raised. *)

\* r with the log records `log` written after it
Logged(r, log) == [r EXCEPT !.log = r.log \o log]
\* r with the log records `log` written before it
LoggedFirst(log, r) == [r EXCEPT !.log = log \o r.log]
\* r ending with the exception e
Failing(r, e) == Raise(e, r.log, r.attached, r.requests)
\* r holding the value v
Holding(r, v) == Ret(v, r.log, r.attached, r.requests)

\* the outcome of a verify_* call made after r
Verified(r, check) ==
    IF check.exc # None THEN Logged(Failing(r, check.exc), check.log)
    ELSE Logged(r, check.log)

\* self.verify_response_status(response, expected_status)
StatusStep(r, expected_status) ==
    IF r.kind = "raised" THEN r
    ELSE Verified(r, VerifyResponseStatus(r.value, expected_status))

\* if not isinstance(response.body, dict): raise AssertionError
JsonStep(r) ==
    IF r.kind = "raised" THEN r
    ELSE IF ~IsDict(r.value.body)
    THEN Failing(r, Exc("AssertionError",
                        [what |-> "expected_json", of |-> r.value.body.kind]))
    ELSE r

\* KeysStep with the key verification left out
KeysStepSkipped(r, required_keys) == r

\* self.verify_response_contains_keys(response, required_keys)
KeysStep(r, required_keys) ==
    IF r.kind = "raised" THEN r
    ELSE Verified(r, VerifyResponseContainsKeys(r.value, required_keys))

\* response.body.get("data", default)
DataOf(response, default) == DictGet(response.body, "data", default)

\* if not isinstance(airports_data, list): raise AssertionError
ListStep(r) ==
    IF r.kind = "raised" THEN r
    ELSE IF ~IsList(DataOf(r.value, JArr(<<>>)))
    THEN Failing(r, Exc("AssertionError",
                        [what |-> "data_not_list",
                         of |-> DataOf(r.value, JArr(<<>>)).kind]))
    ELSE r

\* the block now holds the response and the airports mapped from it
WithAirports(r, mapped) ==
    Logged(Holding(r, [response |-> r.value, airports |-> mapped.airports]),
           mapped.log \o <<Log("INFO", "retrieved")>>)

\* the mapping loop and the log of the number of airports
MapStep(r) ==
    IF r.kind = "raised" THEN r
    ELSE WithAirports(r, MapAirports(DataOf(r.value, JArr(<<>>)).items))

\* the outcome of an allure.attach call made after r
Attached(r, att) ==
    IF att.kind = "raised" THEN Failing(r, att.exc)
    ELSE [r EXCEPT !.attached = r.attached \o <<att.value>>]

\* allure.attach(str(response.body), name="Airports API Response"); return airports
AttachAirportsStep(r, sink) ==
    IF r.kind = "raised" THEN r
    ELSE Attached(Holding(r, r.value.airports),
                  Attach(sink, "Airports API Response", r.value.response.body))

\* except Exception: log the failure and raise it again
Reraised(r, tag) ==
    IF r.kind = "raised" THEN Logged(r, <<Log("ERROR", tag)>>) ELSE r

\* GetAllAirportsTry checking the shape of the body before the status
GetAllAirportsTryBodyFirst(t, sink) ==
    AttachAirportsStep(
        MapStep(ListStep(KeysStep(StatusStep(JsonStep(Get(t)), 200), <<"data">>))),
        sink)

\* the try block of get_all_airports
GetAllAirportsTry(t, sink) ==
    AttachAirportsStep(
        MapStep(ListStep(KeysStep(JsonStep(StatusStep(Get(t), 200)), <<"data">>))),
        sink)

\* get_all_airports: any failure is logged and raised again
GetAllAirports(t, sink) ==
    LoggedFirst(<<Log("INFO", "fetching")>>,
                Reraised(GetAllAirportsTry(t, sink), "get_airports_failed"))

---------------------------------------------------------------------------
(* AirportsClient.get_airports_count, get_airport_names, verify_airports_exist *)

\* CountStep counting one airport more than were mapped
CountStepOneMore(r) ==
    IF r.kind = "raised" THEN r
    ELSE Logged(Holding(r, Len(r.value) + 1), <<Log("INFO", "count")>>)

\* count = len(airports)
CountStep(r) ==
    IF r.kind = "raised" THEN r
    ELSE Logged(Holding(r, Len(r.value)), <<Log("INFO", "count")>>)

\* get_airports_count: len(get_all_airports())
GetAirportsCount(t, sink) ==
    LoggedFirst(<<Log("INFO", "getting_count")>>,
                Reraised(CountStep(GetAllAirports(t, sink)), "count_failed"))

\* the names read so far followed by those of the rest of the list
NamesAfter(name, rest) ==
    IF name.kind = "raised" THEN name
    ELSE IF rest.kind = "raised" THEN rest
    ELSE Val((IF Truthy(name.value) THEN <<name.value>> ELSE <<>>) \o rest.value)

\* [airport.name for airport in airports if airport.name]: the names that
\* are truthy, in order; reading a name may raise, which ends the loop
RECURSIVE NamesOf(_)
NamesOf(airports) ==
    IF airports = <<>> THEN Val(<<>>)
    ELSE NamesAfter(AirportName(Head(airports)), NamesOf(Tail(airports)))

\* the outcome of evaluating an expression after r
Evaluated(r, e) ==
    IF e.kind = "raised" THEN Failing(r, e.exc) ELSE Holding(r, e.value)

\* names = [airport.name for airport in airports if airport.name]
NamesStep(r) ==
    IF r.kind = "raised" THEN r
    ELSE Logged(Evaluated(r, NamesOf(r.value)),
                IF NamesOf(r.value).kind = "raised" THEN <<>>
                ELSE <<Log("DEBUG", "names")>>)

\* get_airport_names
GetAirportNames(t, sink) ==
    LoggedFirst(<<Log("INFO", "getting_names")>>,
                Reraised(NamesStep(GetAllAirports(t, sink)), "names_failed"))

\* x in xs, for a list xs
InList(x, xs) == \E i \in 1..Len(xs) : xs[i] = x

\* MissingAirports stopping at the first required name that is missing
RECURSIVE MissingAirportsFirstOnly(_, _)
MissingAirportsFirstOnly(required_airports, airport_names) ==
    IF required_airports = <<>> THEN <<>>
    ELSE IF InList(JStr(Head(required_airports)), airport_names)
    THEN MissingAirportsFirstOnly(Tail(required_airports), airport_names)
    ELSE <<Head(required_airports)>>

\* the required names that are not in airport_names, in order
RECURSIVE MissingAirports(_, _)
MissingAirports(required_airports, airport_names) ==
    IF required_airports = <<>> THEN <<>>
    ELSE (IF InList(JStr(Head(required_airports)), airport_names) THEN <<>>
          ELSE <<Head(required_airports)>>)
         \o MissingAirports(Tail(required_airports), airport_names)

\* the log record the loop writes for each required name
RECURSIVE RequiredLog(_, _)
RequiredLog(required_airports, airport_names) ==
    IF required_airports = <<>> THEN <<>>
    ELSE <<IF InList(JStr(Head(required_airports)), airport_names)
           THEN Log("DEBUG", "airport_found")
           ELSE Log("WARNING", "airport_not_found")>>
         \o RequiredLog(Tail(required_airports), airport_names)

\* verification_results: each required name with whether it exists
VerificationResults(required_airports, airport_names) ==
    [name \in {required_airports[i] : i \in 1..Len(required_airports)} |->
        InList(JStr(name), airport_names)]

\* the loop over required_airports; the block then holds airport_names
RequiredStep(r, required_airports) ==
    IF r.kind = "raised" THEN r
    ELSE Logged(r, RequiredLog(required_airports, r.value))

\* allure.attach(..., name="Airport Existence Verification")
AttachVerificationStep(r, sink, required_airports) ==
    IF r.kind = "raised" THEN r
    ELSE Attached(r, Attach(sink, "Airport Existence Verification",
                            [required_airports |-> required_airports,
                             verification_results |->
                                 VerificationResults(required_airports, r.value),
                             missing_airports |->
                                 MissingAirports(required_airports, r.value),
                             total_available_airports |-> Len(r.value)]))

\* if missing_airports: raise AssertionError(...); return verification_results
MissingStep(r, required_airports) ==
    IF r.kind = "raised" THEN r
    ELSE IF MissingAirports(required_airports, r.value) # <<>>
    THEN Logged(Failing(r, Exc("AssertionError",
                               [what |-> "missing_airports",
                                missing |-> MissingAirports(required_airports, r.value),
                                available |-> r.value])),
                <<Log("ERROR", "missing_airports")>>)
    ELSE Logged(Holding(r, VerificationResults(required_airports, r.value)),
                <<Log("INFO", "all_verified")>>)

\* the try block of verify_airports_exist
VerifyAirportsExistTry(t, sink, required_airports) ==
    MissingStep(
        AttachVerificationStep(
            RequiredStep(GetAirportNames(t, sink), required_airports),
            sink, required_airports),
        required_airports)

\* verify_airports_exist: any failure is logged and raised again
VerifyAirportsExist(t, sink, required_airports) ==
    LoggedFirst(<<Log("INFO", "verifying")>>,
                Reraised(VerifyAirportsExistTry(t, sink, required_airports),
                         "verify_failed"))

---------------------------------------------------------------------------
(* AirportsClient.get_airport_by_iata_code *)

\* code.upper() == iata_code.upper(), for the value an airport's iata_code
\* gave: upper() raises when the code is no string
CodeMatches(code, iata_code) ==
    IF code.kind = "raised" THEN code
    ELSE IF ~IsStr(code.value) THEN Err(NoAttribute(code.value, "upper"))
    ELSE Val(Upper(code.value.s) = Upper(iata_code))

\* airport.iata_code.upper() == iata_code.upper(): reading the code raises
\* when attributes is no dict
IataMatches(airport, iata_code) == CodeMatches(AirportIataCode(airport), iata_code)

\* one turn of the loop: return the airport when it matches, go on with
\* the rest when it does not, end with the exception the comparison raised
ScanFrom(airport, matches, rest) ==
    IF matches.kind = "raised" THEN matches
    ELSE IF matches.value THEN Val(airport)
    ELSE rest

\* the scan: the first airport whose code matches, None when the loop
\* ends without one, or the exception a comparison raised
RECURSIVE ScanByIata(_, _)
ScanByIata(airports, iata_code) ==
    IF airports = <<>> THEN Val(None)
    ELSE ScanFrom(Head(airports), IataMatches(Head(airports), iata_code),
                  ScanByIata(Tail(airports), iata_code))

\* the for loop and the return after it
ScanStep(r, iata_code) ==
    IF r.kind = "raised" THEN r
    ELSE Logged(Evaluated(r, ScanByIata(r.value, iata_code)),
                IF ScanByIata(r.value, iata_code).kind = "raised" THEN <<>>
                ELSE IF ScanByIata(r.value, iata_code).value = None
                THEN <<Log("WARNING", "lookup_miss")>>
                ELSE <<Log("DEBUG", "lookup_found")>>)

\* Swallowed with the exception raised again after the log
SwallowedRaising(r, tag) ==
    IF r.kind = "raised" THEN Logged(r, <<Log("ERROR", tag)>>) ELSE r

\* except Exception: log the failure and return None
Swallowed(r, tag) ==
    IF r.kind = "raised" THEN Logged(Holding(r, None), <<Log("ERROR", tag)>>) ELSE r

\* get_airport_by_iata_code: every exception is logged and None returned
GetAirportByIataCode(t, sink, iata_code) ==
    LoggedFirst(<<Log("DEBUG", "lookup")>>,
                Swallowed(ScanStep(GetAllAirports(t, sink), iata_code), "lookup_failed"))

---------------------------------------------------------------------------
(* AirportsClient.calculate_distance *)

\* v.get(key, default): raises when v is no dict
GetOf(v, key, default) ==
    IF IsDict(v) THEN Val(DictGet(v, key, default)) ELSE Err(NoAttribute(v, "get"))

\* o.get(key, {}), for the outcome o of the expression before it
GetFrom(o, key) ==
    IF o.kind = "raised" THEN o ELSE GetOf(o.value, key, EmptyDict)

\* field in attributes: a key of a dict, an element of a list, a substring
\* of a string (no string of the model contains a field name without being
\* it); any other value is not iterable
Contains(attributes, field) ==
    CASE attributes.kind = "object" -> Val(HasKey(attributes, field))
      [] attributes.kind = "array" -> Val(InList(JStr(field), attributes.items))
      [] attributes.kind = "string" -> Val(attributes.s = field)
      [] OTHER -> Err(Exc("TypeError", [what |-> "not_iterable", of |-> attributes.kind]))

\* attributes[field]: the value of a key of a dict; a list or a string
\* cannot be indexed by a string
Subscript(attributes, field) ==
    IF IsDict(attributes) THEN Val(attributes.fields[field])
    ELSE Err(Exc("TypeError", [what |-> "bad_index", of |-> attributes.kind]))

required_fields == <<"kilometers", "miles", "nautical_miles">>

\* the missing fields among the first and those of the rest of the list
MissingAfter(field, c, rest) ==
    IF c.kind = "raised" THEN c
    ELSE IF rest.kind = "raised" THEN rest
    ELSE Val((IF c.value THEN <<>> ELSE <<field>>) \o rest.value)

\* [field for field in required_fields if field not in attributes]
RECURSIVE MissingFields(_, _)
MissingFields(attributes, fields) ==
    IF fields = <<>> THEN Val(<<>>)
    ELSE MissingAfter(Head(fields), Contains(attributes, Head(fields)),
                      MissingFields(attributes, Tail(fields)))

\* data.get("relationships", {}).get(end, {}).get("data", {})
RelationshipData(data, end) ==
    GetFrom(GetFrom(GetOf(data, "relationships", EmptyDict), end), "data")

\* Airport(id=..., type=airport_data.get("type", "airport"),
\* attributes={"iata": code}), for the outcome id of airport_data.get("id", code)
EndpointFrom(airport_data, id, code) ==
    IF id.kind = "raised" THEN id
    ELSE Val(Airport(id.value,
                     DictGet(airport_data, "type", JStr("airport")),
                     JObj("iata" :> JStr(code))))

\* EndpointAirport taking the id from the caller's code in every case
EndpointAirportFromCode(airport_data, code) ==
    EndpointFrom(airport_data, Val(JStr(code)), code)

\* the Airport object of one end of the distance
EndpointAirport(airport_data, code) ==
    EndpointFrom(airport_data, GetOf(airport_data, "id", JStr(code)), code)

\* float(v), for the outcome v of the expression in it
FloatOf(v) == IF v.kind = "raised" THEN v ELSE ToFloat(v.value)

\* float(attributes[field])
FieldAsFloat(attributes, field) == FloatOf(Subscript(attributes, field))

\* BuildDistance with miles and nautical miles taken from each other's field
BuildDistanceSwapped(from_airport_obj, to_airport_obj, kilometers, miles, nautical_miles) ==
    IF kilometers.kind = "raised" THEN kilometers
    ELSE IF miles.kind = "raised" THEN miles
    ELSE IF nautical_miles.kind = "raised" THEN nautical_miles
    ELSE Val(DistanceCalculation(from_airport_obj, to_airport_obj,
                                 kilometers.value, nautical_miles.value, miles.value))

\* DistanceCalculation(...): the three floats are evaluated in order
BuildDistance(from_airport_obj, to_airport_obj, kilometers, miles, nautical_miles) ==
    IF kilometers.kind = "raised" THEN kilometers
    ELSE IF miles.kind = "raised" THEN miles
    ELSE IF nautical_miles.kind = "raised" THEN nautical_miles
    ELSE Val(DistanceCalculation(from_airport_obj, to_airport_obj,
                                 kilometers.value, miles.value, nautical_miles.value))

\* the two Airport objects, then the DistanceCalculation
BuildAirports(attributes, from_airport_obj, to_airport_obj) ==
    IF from_airport_obj.kind = "raised" THEN from_airport_obj
    ELSE IF to_airport_obj.kind = "raised" THEN to_airport_obj
    ELSE BuildDistance(from_airport_obj.value, to_airport_obj.value,
                       FieldAsFloat(attributes, "kilometers"),
                       FieldAsFloat(attributes, "miles"),
                       FieldAsFloat(attributes, "nautical_miles"))

\* the relationship data of the two ends, then the objects built from them
BuildEndpoints(attributes, from_airport, to_airport, from_airport_data, to_airport_data) ==
    IF from_airport_data.kind = "raised" THEN from_airport_data
    ELSE IF to_airport_data.kind = "raised" THEN to_airport_data
    ELSE BuildAirports(attributes,
                       EndpointAirport(from_airport_data.value, from_airport),
                       EndpointAirport(to_airport_data.value, to_airport))

\* if missing_fields: raise AssertionError(...), then the rest of the mapping
RequireFields(data, attributes, from_airport, to_airport, missing_fields) ==
    IF missing_fields.kind = "raised" THEN missing_fields
    ELSE IF missing_fields.value # <<>>
    THEN Err(Exc("AssertionError",
                 [what |-> "missing_fields", missing |-> missing_fields.value]))
    ELSE BuildEndpoints(attributes, from_airport, to_airport,
                        RelationshipData(data, "from"), RelationshipData(data, "to"))

\* the mapping once data.get("attributes", {}) has ended as attributes
MapDistanceFrom(data, attributes, from_airport, to_airport) ==
    IF attributes.kind = "raised" THEN attributes
    ELSE RequireFields(data, attributes.value, from_airport, to_airport,
                       MissingFields(attributes.value, required_fields))

\* the mapping of the `data` of a distance response, from the extraction of
\* the attributes to the DistanceCalculation object
MapDistance(data, from_airport, to_airport) ==
    MapDistanceFrom(data, GetOf(data, "attributes", EmptyDict), from_airport, to_airport)

\* the block now holds the DistanceCalculation, and logs it
WithDistance(r, distance_calc) ==
    IF distance_calc.kind = "raised" THEN Failing(r, distance_calc.exc)
    ELSE Logged(Holding(r, distance_calc.value), <<Log("INFO", "distance")>>)

\* the extraction of the data and the construction of the result
DistanceStep(r, from_airport, to_airport) ==
    IF r.kind = "raised" THEN r
    ELSE WithDistance(r, MapDistance(DataOf(r.value, EmptyDict), from_airport, to_airport))

\* allure.attach(..., name="Distance Calculation Results"); return distance_calc
AttachDistanceStep(r, sink, from_airport, to_airport) ==
    IF r.kind = "raised" THEN r
    ELSE Attached(r, Attach(sink, "Distance Calculation Results",
                            [from_airport |-> from_airport,
                             to_airport |-> to_airport,
                             kilometers |-> r.value.kilometers,
                             miles |-> r.value.miles,
                             nautical_miles |-> r.value.nautical_miles]))

\* the try block of calculate_distance
CalculateDistanceTry(t, sink, from_airport, to_airport) ==
    AttachDistanceStep(
        DistanceStep(KeysStep(JsonStep(StatusStep(Post(t), 200)), <<"data">>),
                     from_airport, to_airport),
        sink, from_airport, to_airport)

\* DistanceFailure ending with a new AssertionError in place of the failure
DistanceFailureWrapped(r, sink, from_airport, to_airport) ==
    IF r.kind = "returned" THEN r
    ELSE Failing(Attached(Logged(r, <<Log("ERROR", "distance_failed")>>),
                          Attach(sink, "Distance Calculation Error",
                                 [from_airport |-> from_airport, to_airport |-> to_airport,
                                  error |-> r.exc.msg, error_type |-> r.exc.type])),
                 Exc("AssertionError", [what |-> "distance_failed"]))

\* except Exception: the failure is logged, an error diagnostic with the
\* inputs and the exception's type name is attached, and the exception is
\* raised again; an attach that raises here replaces it
DistanceFailure(r, sink, from_airport, to_airport) ==
    IF r.kind = "returned" THEN r
    ELSE Attached(Logged(r, <<Log("ERROR", "distance_failed")>>),
                  Attach(sink, "Distance Calculation Error",
                         [from_airport |-> from_airport, to_airport |-> to_airport,
                          error |-> r.exc.msg, error_type |-> r.exc.type]))

\* calculate_distance
CalculateDistance(t, sink, from_airport, to_airport) ==
    LoggedFirst(<<Log("INFO", "calculating")>>,
                DistanceFailure(CalculateDistanceTry(t, sink, from_airport, to_airport),
                                sink, from_airport, to_airport))

---------------------------------------------------------------------------
(* AssertionHelper *)

\* float('nan'), and Python's comparisons of numbers: NaN is neither
\* less than, equal to nor greater than any number
NaN == [kind |-> "nan"]
Less(a, b) == a.kind = "number" /\ b.kind = "number" /\ a.n < b.n
LessEq(a, b) == a.kind = "number" /\ b.kind = "number" /\ a.n <= b.n
Greater(a, b) == Less(b, a)
GreaterEq(a, b) == LessEq(b, a)
\* a == b
Equal(a, b) == a.kind # "nan" /\ a = b
\* a - b
Minus(a, b) == IF a.kind = "number" /\ b.kind = "number" THEN JNum(a.n - b.n) ELSE NaN

\* a str as its characters, for the substring test; a bool; a list
Str(chars) == [kind |-> "text", chars |-> chars]
Flag(b) == [kind |-> "bool", b |-> b]
List(items) == [kind |-> "list", items |-> items]
LowerTable == ("A" :> "a") @@ ("B" :> "b") @@ ("a" :> "a") @@ ("b" :> "b") @@ ("c" :> "c")
\* text.lower()
Lower(text) == Str([i \in 1..Len(text.chars) |-> LowerTable[text.chars[i]]])
\* substring in text
IsSubstring(substring, text) ==
    \E i \in 0..(Len(text.chars) - Len(substring.chars)) :
        SubSeq(text.chars, i + 1, i + Len(substring.chars)) = substring.chars
\* item in items
IsItem(item, items) == \E i \in 1..Len(items.items) : Equal(items.items[i], item)

\* the default message of an assertion: what failed and the values shown
Describes(what, shows) == [what |-> what, text |-> "", shows |-> shows]
\* message or (default)
ErrorMsg(message, default) ==
    IF Truthy(message) THEN [what |-> "custom", text |-> message.s, shows |-> <<>>]
    ELSE default

\* Passed writing an error record as well
PassedLoudly ==
    Ret(None, <<Log("ERROR", "assertion_failed"), Log("DEBUG", "assertion_passed")>>, <<>>, 0)

\* the passing end of an assertion: one debug record
Passed == Ret(None, <<Log("DEBUG", "assertion_passed")>>, <<>>, 0)
\* the failing end without attachment: logger.error, raise AssertionError
Failed(error_msg) ==
    Raise(Exc("AssertionError", error_msg), <<Log("ERROR", "assertion_failed")>>, <<>>, 0)
\* the failing end with an attachment: logger.error, allure.attach, raise
FailedAttaching(error_msg, att) ==
    IF att.kind = "raised"
    THEN Raise(att.exc, <<Log("ERROR", "assertion_failed")>>, <<>>, 0)
    ELSE Raise(Exc("AssertionError", error_msg), <<Log("ERROR", "assertion_failed")>>,
               <<att.value>>, 0)

AssertEquals(sink, actual, expected, message) ==
    IF ~Equal(actual, expected)
    THEN FailedAttaching(ErrorMsg(message, Describes("values_not_equal", <<expected, actual>>)),
                         Attach(sink, "Assertion Failure Details", <<expected, actual>>))
    ELSE Passed

AssertNotEquals(actual, not_expected, message) ==
    IF Equal(actual, not_expected)
    THEN Failed(ErrorMsg(message, Describes("values_equal", <<actual>>)))
    ELSE Passed

AssertContains(sink, text, substring, case_sensitive, message) ==
    IF ~IsSubstring(IF case_sensitive.b THEN substring ELSE Lower(substring),
                    IF case_sensitive.b THEN text ELSE Lower(text))
    THEN FailedAttaching(ErrorMsg(message, Describes("substring_not_found",
                                                     <<substring, text, case_sensitive>>)),
                         Attach(sink, "Contains Assertion Failure",
                                <<text, substring, case_sensitive>>))
    ELSE Passed

AssertListContains(sink, items, item, message) ==
    IF ~IsItem(item, items)
    THEN FailedAttaching(ErrorMsg(message, Describes("item_not_found", <<item, items>>)),
                         Attach(sink, "List Contains Assertion Failure", <<item, items>>))
    ELSE Passed

AssertGreaterThan(sink, actual, threshold, message) ==
    IF LessEq(actual, threshold)
    THEN FailedAttaching(ErrorMsg(message, Describes("not_greater_than",
                                      <<actual, threshold, Minus(actual, threshold)>>)),
                         Attach(sink, "Greater Than Assertion Failure",
                                <<actual, threshold, Minus(actual, threshold)>>))
    ELSE Passed

AssertLessThan(actual, threshold, message) ==
    IF GreaterEq(actual, threshold)
    THEN Failed(ErrorMsg(message, Describes("not_less_than",
                             <<actual, threshold, Minus(actual, threshold)>>)))
    ELSE Passed

\* the body is put in the message and attached when it is truthy
AssertStatusCode(sink, actual_status, expected_status, response_body) ==
    IF ~Equal(actual_status, expected_status)
    THEN IF Truthy(response_body)
         THEN FailedAttaching(Describes("status_code_mismatch",
                                        <<expected_status, actual_status, response_body>>),
                              Attach(sink, "Response Body", response_body))
         ELSE Failed(Describes("status_code_mismatch", <<expected_status, actual_status>>))
    ELSE Passed

\* AssertResponseTime failing also at the limit
AssertResponseTimeInclusive(actual_time_ms, max_time_ms, message) ==
    IF GreaterEq(actual_time_ms, max_time_ms)
    THEN Failed(ErrorMsg(message, Describes("response_time_exceeded",
                             <<actual_time_ms, max_time_ms, Minus(actual_time_ms, max_time_ms)>>)))
    ELSE Passed

AssertResponseTime(actual_time_ms, max_time_ms, message) ==
    IF Greater(actual_time_ms, max_time_ms)
    THEN Failed(ErrorMsg(message, Describes("response_time_exceeded",
                             <<actual_time_ms, max_time_ms, Minus(actual_time_ms, max_time_ms)>>)))
    ELSE Passed

---------------------------------------------------------------------------
(* What the transport can answer *)

\* all sequences over S of length at most n
SeqsUpTo(S, n) == UNION {[1..k -> S] : k \in 0..n}

AirportType == JStr("airport")

\* elements of a list response's `data` array: values that are no JSON
\* object, and records with and without id, type, attributes, name, iata
NonObjectRecords == {JStr("junk")}
ObjectRecords ==
    { JObj(<<>>),
      JObj(("id" :> JStr("1")) @@ ("type" :> AirportType) @@
           ("attributes" :> JObj(("name" :> JStr("A")) @@ ("iata" :> JStr("KIX"))))),
      JObj(("id" :> JStr("2")) @@ ("type" :> AirportType) @@
           ("attributes" :> JObj(("name" :> JStr("a")) @@ ("iata" :> JStr("kix"))))),
      JObj(("id" :> JStr("3")) @@ ("type" :> AirportType) @@
           ("attributes" :> JObj(("name" :> JStr("")) @@ ("iata" :> JStr("NRT"))))),
      JObj(("id" :> JStr("4")) @@ ("type" :> AirportType) @@
           ("attributes" :> JObj("iata" :> JStr("KIX")))),
      JObj(("id" :> JStr("5")) @@ ("type" :> AirportType) @@
           ("attributes" :> JNull)),
      JObj(("id" :> JStr("6")) @@ ("type" :> AirportType) @@
           ("attributes" :> JObj(("name" :> JStr("A")) @@ ("iata" :> JNull)))),
      JObj(("type" :> AirportType) @@
           ("attributes" :> JObj("name" :> JStr("A")))) }
Records == NonObjectRecords \cup ObjectRecords

\* bodies of the list endpoint: {"data": [...]}
ListBodies == {JObj("data" :> JArr(items)) : items \in SeqsUpTo(Records, MaxRecords)}

\* bodies whose top-level shape is wrong: no object, no `data`, `data` no list
ShapelessBodies ==
    { JNull, JArr(<<>>), JObj("errors" :> JStr("not found")),
      JObj("data" :> JNull), JObj("data" :> JStr("none")) }

\* a key that a JSON object may lack
Absent == [kind |-> "absent"]
\* the object holding key with value v, or nothing when the key is absent
Opt(key, v) == IF v = Absent THEN <<>> ELSE key :> v

\* the distance fields a response may carry: numbers, numeric and other
\* strings, null, or no such key
KilometerValues == {Absent, JNum(0), JNum(100), JStr("100"), JStr("abc"), JNull}
MileValues == {Absent, JNum(62), JNum(100), JNull}
NauticalMileValues == {Absent, JNum(54), JNum(100), JStr("x")}

DistanceAttributes ==
    {Absent, JNull, JArr(<<JStr("kilometers"), JStr("miles"), JStr("nautical_miles")>>)}
    \cup {JObj(Opt("kilometers", k) @@ Opt("miles", m) @@ Opt("nautical_miles", n)) :
            k \in KilometerValues, m \in MileValues, n \in NauticalMileValues}

EndpointRef(id) == JObj("data" :> JObj(("id" :> JStr(id)) @@ ("type" :> AirportType)))
DistanceRelationships ==
    { Absent, JNull,
      JObj(("from" :> EndpointRef("12")) @@ ("to" :> EndpointRef("34"))),
      JObj("from" :> EndpointRef("12")),
      JObj(("from" :> EndpointRef("12")) @@ ("to" :> JObj("data" :> JObj(<<>>)))) }

\* bodies of the distance endpoint: {"data": {"attributes": ..., "relationships": ...}}
DistanceBodies ==
    {JObj("data" :> JObj(Opt("attributes", a) @@ Opt("relationships", r))) :
        a \in DistanceAttributes, r \in DistanceRelationships}

JsonBodies == ListBodies \cup ShapelessBodies \cup DistanceBodies

\* what response.text() gives: it fails, or it is text that is empty, is
\* not JSON, or is JSON; text that is not JSON is read a second time, and
\* that call gives the same text or fails
Texts ==
    { [kind |-> "fails"],
      [kind |-> "text", raw |-> "", json |-> DecodeError],
      [kind |-> "text", raw |-> "<html>", json |-> DecodeError, second |-> "same"],
      [kind |-> "text", raw |-> "<html>", json |-> DecodeError, second |-> "fails"] }
    \cup {[kind |-> "text", raw |-> "json", json |-> j] : j \in JsonBodies}

Statuses == {200, 201, 404}

\* the outcome of the request: the transport raises, or it answers
Transports ==
    {[kind |-> "error", exc |-> "TimeoutError"]}
    \cup {[kind |-> "response", status |-> s, text |-> x] : s \in Statuses, x \in Texts}

\* the arguments the operations are called with
RequiredNames == {"A", ""}
IataCodes == {"Kix", "nrt", ""}
AirportPairs == {<<"KIX", "NRT">>, <<"XXX", "KIX">>}

---------------------------------------------------------------------------
(* The state machine *)

NoCall == [op |-> "none", args |-> <<>>, result |-> None]

\* a run of the API layer opens no browser page and builds no DataLoader
NoBrowser == page = None /\ context = None /\ pc = None
NoLoader == loader = None /\ disk = None

Init ==
    /\ transport \in Transports
    /\ sinkUp = TRUE
    /\ last = NoCall
    /\ NoBrowser /\ NoLoader

\* a run in which the reporting sink may be broken
InitSink ==
    /\ transport \in Transports
    /\ sinkUp \in BOOLEAN
    /\ last = NoCall
    /\ NoBrowser /\ NoLoader

\* the record of a completed call: the operation, its arguments, and its
\* outcome with the effects it had
Called(op, args, result) == [op |-> op, args |-> args, result |-> result]

DoGetAllAirports ==
    /\ last' = Called("get_all_airports", <<>>, GetAllAirports(transport, sinkUp))
    /\ UNCHANGED <<transport, sinkUp, page, context, pc, loader, disk>>

DoGetAirportsCount ==
    /\ last' = Called("get_airports_count", <<>>, GetAirportsCount(transport, sinkUp))
    /\ UNCHANGED <<transport, sinkUp, page, context, pc, loader, disk>>

DoGetAirportNames ==
    /\ last' = Called("get_airport_names", <<>>, GetAirportNames(transport, sinkUp))
    /\ UNCHANGED <<transport, sinkUp, page, context, pc, loader, disk>>

DoVerifyAirportsExist ==
    \E required \in SeqsUpTo(RequiredNames, MaxRequired) :
        /\ last' = Called("verify_airports_exist", <<required>>,
                          VerifyAirportsExist(transport, sinkUp, required))
        /\ UNCHANGED <<transport, sinkUp, page, context, pc, loader, disk>>

DoGetAirportByIataCode ==
    \E code \in IataCodes :
        /\ last' = Called("get_airport_by_iata_code", <<code>>,
                          GetAirportByIataCode(transport, sinkUp, code))
        /\ UNCHANGED <<transport, sinkUp, page, context, pc, loader, disk>>

DoCalculateDistance ==
    \E codes \in AirportPairs :
        /\ last' = Called("calculate_distance", codes,
                          CalculateDistance(transport, sinkUp, codes[1], codes[2]))
        /\ UNCHANGED <<transport, sinkUp, page, context, pc, loader, disk>>

Next ==
    \/ DoGetAllAirports
    \/ DoGetAirportsCount
    \/ DoGetAirportNames
    \/ DoVerifyAirportsExist
    \/ DoGetAirportByIataCode
    \/ DoCalculateDistance

Spec == Init /\ [][Next]_vars

\* BaseAPIClient on its own: the steps of a request and the verifications
\* are called on what the transport answers
Methods == {"GET", "get", "POST", "Post", "PUT", "DELETE", "PATCH", "patch", "TRACE", ""}
ExpectedStatuses == {200, 404}

\* the outcome of a step that returns nothing, and of the parsing step
Checked(v) ==
    IF v.exc = None THEN Ret(None, v.log, <<>>, 0) ELSE Raise(v.exc, v.log, <<>>, 0)
ParsedOutcome(parsed) ==
    IF parsed.exc = None THEN Ret(parsed.body, parsed.log, <<>>, 0)
    ELSE Raise(parsed.exc, parsed.log, <<>>, 0)

DoParseResponseBody ==
    /\ transport.kind = "response"
    /\ last' = Called("_parse_response_body", <<>>, ParsedOutcome(ParseResponseBody(transport)))
    /\ UNCHANGED <<transport, sinkUp, page, context, pc, loader, disk>>

DoExecuteRequest ==
    \E method \in Methods :
        /\ last' = Called("_execute_request", <<method>>, ExecuteRequest(method, transport))
        /\ UNCHANGED <<transport, sinkUp, page, context, pc, loader, disk>>

DoMakeRequest ==
    \E method \in Methods :
        /\ last' = Called("_make_request", <<method>>, MakeRequest(method, transport))
        /\ UNCHANGED <<transport, sinkUp, page, context, pc, loader, disk>>

\* verify_response_status on the response a GET returned
DoVerifyResponseStatus ==
    \E expected_status \in ExpectedStatuses :
        /\ Get(transport).kind = "returned"
        /\ last' = Called("verify_response_status", <<expected_status>>,
                          Checked(VerifyResponseStatus(Get(transport).value, expected_status)))
        /\ UNCHANGED <<transport, sinkUp, page, context, pc, loader, disk>>

\* verify_response_contains_keys on the response a GET returned
KeyLists == {<<>>, <<"data">>, <<"errors", "data">>, <<"meta", "errors">>}

DoVerifyResponseContainsKeys ==
    \E required_keys \in KeyLists :
        /\ Get(transport).kind = "returned"
        /\ last' = Called("verify_response_contains_keys",
                          <<Get(transport).value, required_keys>>,
                          Checked(VerifyResponseContainsKeys(Get(transport).value,
                                                             required_keys)))
        /\ UNCHANGED <<transport, sinkUp, page, context, pc, loader, disk>>

NextBase ==
    \/ DoParseResponseBody
    \/ DoExecuteRequest
    \/ DoMakeRequest
    \/ DoVerifyResponseStatus
    \/ DoVerifyResponseContainsKeys

SpecBase == Init /\ [][NextBase]_vars

\* AllureReporter.attach_json: the attach is tried, and a failure of it is
\* logged and not raised
AttachJson(sink, data, name) ==
    IF Attach(sink, name, data).kind = "raised"
    THEN Ret(None, <<Log("ERROR", "attach_json")>>, <<>>, 0)
    ELSE Ret(None, <<Log("DEBUG", "attach_json")>>, <<Attach(sink, name, data).value>>, 0)

DoAttachJson ==
    \E data \in ShapelessBodies :
        /\ last' = Called("attach_json", <<data>>, AttachJson(sinkUp, data, "JSON Data"))
        /\ UNCHANGED <<transport, sinkUp, page, context, pc, loader, disk>>

\* the operations that emit diagnostics, with a sink that works or not
NextSink ==
    \/ DoGetAllAirports
    \/ DoVerifyAirportsExist
    \/ DoCalculateDistance
    \/ DoAttachJson

SpecSink == InitSink /\ [][NextSink]_vars

\* AssertionHelper on its own: each assertion is called on small values,
\* with and without a message, with a sink that works or not
Numbers == {JNum(4), JNum(5), JNum(6), NaN}
Values == Numbers \cup {JStr("5")}
Messages == {None, JStr(""), JStr("boom")}
Strs == {Str(<<>>), Str(<<"a">>), Str(<<"B">>), Str(<<"A", "b">>), Str(<<"c">>)}
Lists == {List(<<>>), List(<<JNum(5)>>), List(<<JNum(4), JStr("5")>>)}
StatusCodes == {JNum(200), JNum(404)}
ResponseBodies == {None, JStr(""), JStr("not found")}

InitAssert ==
    /\ transport = [kind |-> "error", exc |-> "TimeoutError"]
    /\ sinkUp \in BOOLEAN
    /\ last = NoCall
    /\ NoBrowser /\ NoLoader

DoAssertEquals ==
    \E actual \in Values, expected \in Values, message \in Messages :
        /\ last' = Called("assert_equals", <<actual, expected, message>>,
                          AssertEquals(sinkUp, actual, expected, message))
        /\ UNCHANGED <<transport, sinkUp, page, context, pc, loader, disk>>

DoAssertNotEquals ==
    \E actual \in Values, not_expected \in Values, message \in Messages :
        /\ last' = Called("assert_not_equals", <<actual, not_expected, message>>,
                          AssertNotEquals(actual, not_expected, message))
        /\ UNCHANGED <<transport, sinkUp, page, context, pc, loader, disk>>

DoAssertContains ==
    \E text \in Strs, substring \in Strs, case_sensitive \in BOOLEAN, message \in Messages :
        /\ last' = Called("assert_contains", <<text, substring, Flag(case_sensitive), message>>,
                          AssertContains(sinkUp, text, substring, Flag(case_sensitive), message))
        /\ UNCHANGED <<transport, sinkUp, page, context, pc, loader, disk>>

DoAssertListContains ==
    \E items \in Lists, item \in Values, message \in Messages :
        /\ last' = Called("assert_list_contains", <<items, item, message>>,
                          AssertListContains(sinkUp, items, item, message))
        /\ UNCHANGED <<transport, sinkUp, page, context, pc, loader, disk>>

DoAssertGreaterThan ==
    \E actual \in Numbers, threshold \in Numbers, message \in Messages :
        /\ last' = Called("assert_greater_than", <<actual, threshold, message>>,
                          AssertGreaterThan(sinkUp, actual, threshold, message))
        /\ UNCHANGED <<transport, sinkUp, page, context, pc, loader, disk>>

DoAssertLessThan ==
    \E actual \in Numbers, threshold \in Numbers, message \in Messages :
        /\ last' = Called("assert_less_than", <<actual, threshold, message>>,
                          AssertLessThan(actual, threshold, message))
        /\ UNCHANGED <<transport, sinkUp, page, context, pc, loader, disk>>

DoAssertStatusCode ==
    \E actual_status \in StatusCodes, expected_status \in StatusCodes,
       response_body \in ResponseBodies :
        /\ last' = Called("assert_status_code", <<actual_status, expected_status, response_body>>,
                          AssertStatusCode(sinkUp, actual_status, expected_status, response_body))
        /\ UNCHANGED <<transport, sinkUp, page, context, pc, loader, disk>>

DoAssertResponseTime ==
    \E actual_time_ms \in Numbers, max_time_ms \in Numbers, message \in Messages :
        /\ last' = Called("assert_response_time", <<actual_time_ms, max_time_ms, message>>,
                          AssertResponseTime(actual_time_ms, max_time_ms, message))
        /\ UNCHANGED <<transport, sinkUp, page, context, pc, loader, disk>>

NextAssert ==
    \/ DoAssertEquals
    \/ DoAssertNotEquals
    \/ DoAssertContains
    \/ DoAssertListContains
    \/ DoAssertGreaterThan
    \/ DoAssertLessThan
    \/ DoAssertStatusCode
    \/ DoAssertResponseTime

SpecAssert == InitAssert /\ [][NextAssert]_vars

---------------------------------------------------------------------------
(* BasePage (src/src/core/base_page.py) over a Playwright page             *)
(*                                                                         *)
(* The page is the browser's state: the URL shown, the items of the cart   *)
(* and the text typed into the first-name input of the checkout form.      *)
(* A Playwright call raises when the element it needs is not there, and it *)
(* may raise for reasons of its own (a timeout, a closed browser): the set *)
(* `faults` names the calls that do so during one operation.               *)

\* most items the cart holds
MaxItems == 2

\* a URL as its parts, for the substring test
CartUrl == <<"https://www.saucedemo.com", "/cart.html">>
CheckoutUrl == <<"https://www.saucedemo.com", "/checkout-step-one.html">>
BlankUrl == <<"about:blank">>

\* CartPage.url_pattern, CartPage.page_title
url_pattern == <<"/cart.html">>
page_title == "Swag Labs"
\* the title the browser shows for a URL
TitleOf(url) == IF url = BlankUrl THEN "" ELSE "Swag Labs"

\* the locators of CartPage and the first-name input of the checkout form;
\* a locator is the chain of its selectors
CART_ITEMS == <<".cart_item">>
CART_ITEM_NAME == <<".inventory_item_name">>
REMOVE_BUTTON == <<"[data-test^='remove']">>
CHECKOUT_BUTTON == <<"#checkout">>
FIRST_NAME == <<"#first-name">>
\* page.locator(CART_ITEMS).first.locator(inner)
FirstItem(inner) == CART_ITEMS \o <<"first">> \o inner

\* the number of elements a locator matches
Matches(p, locator) ==
    CASE locator = CART_ITEMS -> IF p.url = CartUrl THEN Len(p.items) ELSE 0
      [] locator = CHECKOUT_BUTTON -> IF p.url = CartUrl THEN 1 ELSE 0
      [] locator = FIRST_NAME -> IF p.url = CheckoutUrl THEN 1 ELSE 0
      [] locator \in {FirstItem(CART_ITEM_NAME), FirstItem(REMOVE_BUTTON)} ->
            IF p.url = CartUrl /\ Len(p.items) > 0 THEN 1 ELSE 0
      [] OTHER -> 0

\* element.text_content(): None for an element without text
TextContent(p, locator) ==
    CASE locator \in {CART_ITEMS, FirstItem(CART_ITEM_NAME)} ->
            IF p.items[1] = "" THEN None ELSE JStr(p.items[1])
      [] locator = CHECKOUT_BUTTON -> JStr("Checkout")
      [] OTHER -> None

\* what the application does on a click: the checkout button opens the
\* checkout form, the remove button of the first item takes it off the cart
ClickOn(p, locator) ==
    CASE locator = CHECKOUT_BUTTON -> [p EXCEPT !.url = CheckoutUrl, !.field = ""]
      [] locator = FirstItem(REMOVE_BUTTON) -> [p EXCEPT !.items = Tail(@)]
      [] OTHER -> p

\* an operation under way: the page and the context as they are now, the
\* buttons clicked and the screenshots saved so far
Running(p, c) ==
    [kind |-> "running", value |-> None, exc |-> None,
     page |-> p, context |-> c, clicked |-> <<>>, shots |-> <<>>]
Fail(r, e) == [r EXCEPT !.kind = "raised", !.exc = e]
Giving(r, v) == [r EXCEPT !.value = v]
\* return: the operation ends normally unless it raised
Finish(r) == IF r.kind = "raised" THEN r ELSE [r EXCEPT !.kind = "returned"]

\* the error of a Playwright call, and of an expect() that does not hold
PlaywrightError(call) == Exc("PlaywrightError", [what |-> call])
ExpectationError(what) == Exc("AssertionError", [what |-> what])

\* the file a screenshot is saved to: f"screenshots/{cid}_{suffix}_{ts}.png"
ScreenshotPath(name_suffix) == [kind |-> "path", suffix |-> name_suffix]

\* _take_screenshot that lets the failure of page.screenshot out
TakeScreenshotRaising(r, name_suffix, faults) ==
    IF "screenshot" \in faults THEN Fail(r, PlaywrightError("screenshot"))
    ELSE [r EXCEPT !.shots = Append(@, ScreenshotPath(name_suffix)),
                   !.context = ScreenshotPath(name_suffix)]

\* _take_screenshot(name_suffix): os.makedirs and page.screenshot inside
\* the try block; context.screenshot_path is set after them
TakeScreenshot(r, name_suffix, faults) ==
    IF "screenshot" \in faults THEN r
    ELSE [r EXCEPT !.shots = Append(@, ScreenshotPath(name_suffix)),
                   !.context = ScreenshotPath(name_suffix)]

\* except Exception: log, self._take_screenshot(name_suffix), raise
OnFailure(r, name_suffix, faults) ==
    IF r.kind = "raised" THEN TakeScreenshot(r, name_suffix, faults) ELSE r

\* page.wait_for_selector(locator, state="visible")
WaitForSelector(r, locator, faults) ==
    IF "wait_for_selector" \in faults \/ Matches(r.page, locator) = 0
    THEN Fail(r, PlaywrightError("wait_for_selector"))
    ELSE r

\* a call on page.locator(locator): the locator must match one element
OnElement(r, locator, call, faults) ==
    IF call \in faults \/ Matches(r.page, locator) # 1
    THEN Fail(r, PlaywrightError(call))
    ELSE r

\* expect(page.locator(locator)).to_be_enabled()
ExpectEnabled(r, locator, faults) ==
    IF "expect" \in faults \/ Matches(r.page, locator) # 1
    THEN Fail(r, ExpectationError("to_be_enabled"))
    ELSE r

\* element.click()
Click(r, locator, faults) ==
    IF OnElement(r, locator, "click", faults).kind = "raised"
    THEN OnElement(r, locator, "click", faults)
    ELSE [r EXCEPT !.page = ClickOn(@, locator), !.clicked = Append(@, locator)]

\* page.wait_for_load_state(...), page.wait_for_timeout(ms)
WaitFor(r, call, faults) ==
    IF call \in faults THEN Fail(r, PlaywrightError(call)) ELSE r

\* navigate_to(url, wait_for_load)
NavigateToFrom(r, url, wait_for_load, faults) ==
    LET gone == IF "goto" \in faults THEN Fail(r, PlaywrightError("goto"))
                ELSE [r EXCEPT !.page = [@ EXCEPT !.url = url, !.field = ""]]
        idle == IF gone.kind = "raised" \/ ~wait_for_load THEN gone
                ELSE WaitFor(gone, "wait_for_load_state", faults)
    IN  OnFailure(idle, "navigation_failed", faults)

\* wait_for_element(locator, state="visible")
WaitForElementFrom(r, locator, faults) ==
    OnFailure(WaitForSelector(r, locator, faults), "element_wait_failed", faults)

ClickStep(r, locator, force, faults) ==
    IF r.kind = "raised" THEN r
    ELSE IF ~force /\ ExpectEnabled(r, locator, faults).kind = "raised"
    THEN ExpectEnabled(r, locator, faults)
    ELSE Click(r, locator, faults)

\* click_element(locator, wait_before, force)
ClickElementFrom(r, locator, wait_before, force, faults) ==
    OnFailure(ClickStep(IF wait_before THEN WaitForElementFrom(r, locator, faults) ELSE r,
                        locator, force, faults),
              "click_failed", faults)

\* element.clear(), element.fill(text)
Typed(r, locator, call, text, faults) ==
    IF r.kind = "raised" THEN r
    ELSE IF OnElement(r, locator, call, faults).kind = "raised"
    THEN OnElement(r, locator, call, faults)
    ELSE [r EXCEPT !.page = [@ EXCEPT !.field = text]]

\* fill_text(locator, text, clear_first)
FillTextFrom(r, locator, text, clear_first, faults) ==
    LET waited == WaitForElementFrom(r, locator, faults)
        cleared == IF clear_first THEN Typed(waited, locator, "clear", "", faults)
                   ELSE waited
    IN  OnFailure(Typed(cleared, locator, "fill", text, faults), "fill_text_failed", faults)

TextStep(r, locator, faults) ==
    IF r.kind = "raised" THEN r
    ELSE IF OnElement(r, locator, "text_content", faults).kind = "raised"
    THEN OnElement(r, locator, "text_content", faults)
    ELSE Giving(r, IF TextContent(r.page, locator) = None THEN JStr("")
                   ELSE TextContent(r.page, locator))

\* get_text(locator, wait_for_element): element.text_content() or ""
GetTextFrom(r, locator, wait_for_element, faults) ==
    OnFailure(TextStep(IF wait_for_element THEN WaitForElementFrom(r, locator, faults) ELSE r,
                       locator, faults),
              "get_text_failed", faults)

\* get_elements_count(locator): 0 when counting fails
GetElementsCount(p, locator, faults) ==
    IF "count" \in faults THEN 0 ELSE Matches(p, locator)

\* is_element_visible(locator, timeout): False on any exception
IsElementVisible(p, locator, faults) ==
    "wait_for_selector" \notin faults /\ Matches(p, locator) > 0

\* wait_for_page_load(): two page.wait_for_load_state calls
WaitForPageLoadFrom(r, faults) ==
    OnFailure(WaitFor(r, "wait_for_load_state", faults), "page_load_timeout", faults)

\* verify_page_loaded(): the URL pattern, then the title
VerifyPageLoadedFrom(r, faults) ==
    LET checked ==
            IF ~IsSubstring(Str(url_pattern), Str(r.page.url))
            THEN Fail(r, ExpectationError("url_pattern"))
            ELSE IF page_title # "" /\ ("expect" \in faults \/ TitleOf(r.page.url) # page_title)
            THEN Fail(r, ExpectationError("to_have_title"))
            ELSE r
    IN  OnFailure(checked, "page_verification_failed", faults)

---------------------------------------------------------------------------
(* CartPage (src/src/pages/cart_page.py) *)

\* get_cart_items_count(): the number of cart items when one of them is
\* visible, 0 otherwise and on any exception
GetCartItemsCount(p, faults) ==
    IF IsElementVisible(p, CART_ITEMS, faults)
    THEN GetElementsCount(p, CART_ITEMS, faults)
    ELSE 0

EmptyCartError(what) == Exc("ValueError", [what |-> what])

NameStep(r, faults) ==
    IF OnElement(r, FirstItem(CART_ITEM_NAME), "text_content", faults).kind = "raised"
    THEN OnElement(r, FirstItem(CART_ITEM_NAME), "text_content", faults)
    ELSE Giving(r, IF TextContent(r.page, FirstItem(CART_ITEM_NAME)) = None
                   THEN JStr("Unknown")
                   ELSE TextContent(r.page, FirstItem(CART_ITEM_NAME)))

RemoveStep(r, faults) ==
    IF r.kind = "raised" THEN r
    ELSE Click(r, FirstItem(REMOVE_BUTTON), faults)

WaitStep(r, call, faults) ==
    IF r.kind = "raised" THEN r ELSE WaitFor(r, call, faults)

\* remove_first_item that clicks before it looks at the count
RemoveFirstItemUnguarded(r, faults) ==
    OnFailure(WaitStep(RemoveStep(NameStep(r, faults), faults), "wait_for_timeout", faults),
              "remove_first_item_failed", faults)

\* remove_first_item(): the name of the first item, a click on its remove
\* button, a wait of one second
RemoveFirstItemFrom(r, faults) ==
    OnFailure(IF GetCartItemsCount(r.page, faults) = 0
              THEN Fail(r, EmptyCartError("remove"))
              ELSE WaitStep(RemoveStep(NameStep(r, faults), faults),
                            "wait_for_timeout", faults),
              "remove_first_item_failed", faults)

\* page.wait_for_url("**/checkout-step-one.html")
WaitForUrlStep(r, url, faults) ==
    IF r.kind = "raised" THEN r
    ELSE IF "wait_for_url" \in faults \/ r.page.url # url
    THEN Fail(r, PlaywrightError("wait_for_url"))
    ELSE r

\* proceed_to_checkout()
ProceedToCheckoutFrom(r, faults) ==
    OnFailure(IF GetCartItemsCount(r.page, faults) = 0
              THEN Fail(r, EmptyCartError("checkout"))
              ELSE WaitForUrlStep(ClickElementFrom(r, CHECKOUT_BUTTON, TRUE, FALSE, faults),
                                  CheckoutUrl, faults),
              "checkout_failed", faults)

---------------------------------------------------------------------------
(* The page objects as state machines *)

ItemNames == {"Backpack", ""}
Carts == SeqsUpTo(ItemNames, MaxItems)
Page(url, items) == [url |-> url, items |-> items, field |-> ""]

\* the calls that raise during one operation: none, or one of the calls the
\* operation makes; with and without the screenshot failing as well
Faults(calls) == {{}} \cup {{c} : c \in calls}
FaultsAndShot(calls) == Faults(calls) \cup {f \cup {"screenshot"} : f \in Faults(calls)}

\* no clear_cart is under way
Idle == [at |-> "idle"]

\* what a completed operation leaves in the record of the last call
Outcome(r) ==
    [kind |-> r.kind, value |-> r.value, exc |-> r.exc,
     clicked |-> r.clicked, shots |-> r.shots]

\* a CartPage on the cart page or, after a checkout, on the checkout form
InitCart ==
    /\ transport = [kind |-> "error", exc |-> "TimeoutError"]
    /\ sinkUp = TRUE
    /\ last = NoCall
    /\ page \in {Page(url, items) : url \in {CartUrl, CheckoutUrl}, items \in Carts}
    /\ context = None
    /\ pc = Idle
    /\ NoLoader

DoGetCartItemsCount ==
    \E faults \in Faults({"wait_for_selector", "count"}) :
        /\ pc = Idle
        /\ last' = Called("get_cart_items_count", <<faults>>,
                          Outcome(Finish(Giving(Running(page, context),
                                                JNum(GetCartItemsCount(page, faults))))))
        /\ UNCHANGED <<transport, sinkUp, page, context, pc, loader, disk>>

DoRemoveFirstItem ==
    \E faults \in FaultsAndShot({"wait_for_selector", "count", "text_content",
                                 "click", "wait_for_timeout"}) :
        /\ pc = Idle
        /\ last' = Called("remove_first_item", <<faults>>,
                          Outcome(Finish(RemoveFirstItemFrom(Running(page, context), faults))))
        /\ page' = RemoveFirstItemFrom(Running(page, context), faults).page
        /\ context' = RemoveFirstItemFrom(Running(page, context), faults).context
        /\ UNCHANGED <<transport, sinkUp, pc, loader, disk>>

DoProceedToCheckout ==
    \E faults \in FaultsAndShot({"wait_for_selector", "count", "expect",
                                 "click", "wait_for_url"}) :
        /\ pc = Idle
        /\ last' = Called("proceed_to_checkout", <<faults>>,
                          Outcome(Finish(ProceedToCheckoutFrom(Running(page, context), faults))))
        /\ page' = ProceedToCheckoutFrom(Running(page, context), faults).page
        /\ context' = ProceedToCheckoutFrom(Running(page, context), faults).context
        /\ UNCHANGED <<transport, sinkUp, pc, loader, disk>>

\* clear_cart() is called: items_count = self.get_cart_items_count() is
\* logged, and the loop is entered
ClearCartCall ==
    /\ pc = Idle
    /\ pc' = [at |-> "while", clicked |-> <<>>, shots |-> <<>>]
    /\ UNCHANGED <<transport, sinkUp, last, page, context, loader, disk>>

\* the run of clear_cart as it stands at a step of the loop
Clearing == [Running(page, context) EXCEPT !.clicked = pc.clicked, !.shots = pc.shots]

\* while self.get_cart_items_count() > 0: the loop goes on, or clear_cart
\* returns
ClearCartTest ==
    \E faults \in Faults({"wait_for_selector", "count"}) :
        /\ pc # Idle /\ pc.at = "while"
        /\ IF GetCartItemsCount(page, faults) > 0
           THEN /\ pc' = [pc EXCEPT !.at = "body"]
                /\ UNCHANGED last
           ELSE /\ pc' = Idle
                /\ last' = Called("clear_cart", <<>>, Outcome(Finish(Clearing)))
        /\ UNCHANGED <<transport, sinkUp, page, context, loader, disk>>

\* self.remove_first_item(); self.page.wait_for_timeout(500), and the
\* except clause of clear_cart around them
ClearCartBodyFrom(r, faults) ==
    OnFailure(WaitStep(RemoveFirstItemFrom(r, faults), "wait_for_timeout", faults),
              "clear_cart_failed", faults)

ClearCartBody ==
    \E faults \in FaultsAndShot({"wait_for_selector", "count", "text_content",
                                 "click", "wait_for_timeout"}) :
        /\ pc # Idle /\ pc.at = "body"
        /\ page' = ClearCartBodyFrom(Clearing, faults).page
        /\ context' = ClearCartBodyFrom(Clearing, faults).context
        /\ IF ClearCartBodyFrom(Clearing, faults).kind = "raised"
           THEN /\ pc' = Idle
                /\ last' = Called("clear_cart", <<>>,
                                  Outcome(ClearCartBodyFrom(Clearing, faults)))
           ELSE /\ pc' = [at |-> "while",
                          clicked |-> ClearCartBodyFrom(Clearing, faults).clicked,
                          shots |-> ClearCartBodyFrom(Clearing, faults).shots]
                /\ UNCHANGED last
        /\ UNCHANGED <<transport, sinkUp, loader, disk>>

NextCart ==
    \/ DoGetCartItemsCount
    \/ DoRemoveFirstItem
    \/ DoProceedToCheckout
    \/ ClearCartCall
    \/ ClearCartTest
    \/ ClearCartBody

SpecCart == InitCart /\ [][NextCart]_vars

\* the loop of clear_cart keeps running once it is entered
SpecCartFair == SpecCart /\ WF_vars(ClearCartTest) /\ WF_vars(ClearCartBody)

\* BasePage on its own
Locators == {CART_ITEMS, CHECKOUT_BUTTON, FIRST_NAME}
Urls == {CartUrl, CheckoutUrl, BlankUrl}
FieldTexts == {"Ann"}

InitPage ==
    /\ transport = [kind |-> "error", exc |-> "TimeoutError"]
    /\ sinkUp = TRUE
    /\ last = NoCall
    /\ page \in {Page(url, items) : url \in Urls, items \in SeqsUpTo({"Backpack"}, MaxItems)}
    /\ context = None
    /\ pc = Idle
    /\ NoLoader

DoNavigateTo ==
    \E url \in Urls, wait_for_load \in BOOLEAN,
       faults \in FaultsAndShot({"goto", "wait_for_load_state"}) :
        /\ last' = Called("navigate_to", <<url, wait_for_load, faults>>,
                          Outcome(Finish(NavigateToFrom(Running(page, context), url,
                                                        wait_for_load, faults))))
        /\ page' = NavigateToFrom(Running(page, context), url, wait_for_load, faults).page
        /\ context' = NavigateToFrom(Running(page, context), url, wait_for_load, faults).context
        /\ UNCHANGED <<transport, sinkUp, pc, loader, disk>>

DoWaitForElement ==
    \E locator \in Locators, faults \in FaultsAndShot({"wait_for_selector"}) :
        /\ last' = Called("wait_for_element", <<locator, faults>>,
                          Outcome(Finish(WaitForElementFrom(Running(page, context),
                                                            locator, faults))))
        /\ page' = WaitForElementFrom(Running(page, context), locator, faults).page
        /\ context' = WaitForElementFrom(Running(page, context), locator, faults).context
        /\ UNCHANGED <<transport, sinkUp, pc, loader, disk>>

DoClickElement ==
    \E locator \in Locators, wait_before \in BOOLEAN, force \in BOOLEAN,
       faults \in FaultsAndShot({"wait_for_selector", "expect", "click"}) :
        /\ last' = Called("click_element", <<locator, wait_before, force, faults>>,
                          Outcome(Finish(ClickElementFrom(Running(page, context), locator,
                                                          wait_before, force, faults))))
        /\ page' = ClickElementFrom(Running(page, context), locator,
                                    wait_before, force, faults).page
        /\ context' = ClickElementFrom(Running(page, context), locator,
                                       wait_before, force, faults).context
        /\ UNCHANGED <<transport, sinkUp, pc, loader, disk>>

DoFillText ==
    \E locator \in Locators, text \in FieldTexts, clear_first \in BOOLEAN,
       faults \in FaultsAndShot({"wait_for_selector", "clear", "fill"}) :
        /\ last' = Called("fill_text", <<locator, text, clear_first, faults>>,
                          Outcome(Finish(FillTextFrom(Running(page, context), locator,
                                                      text, clear_first, faults))))
        /\ page' = FillTextFrom(Running(page, context), locator,
                                text, clear_first, faults).page
        /\ context' = FillTextFrom(Running(page, context), locator,
                                   text, clear_first, faults).context
        /\ UNCHANGED <<transport, sinkUp, pc, loader, disk>>

DoGetText ==
    \E locator \in Locators, wait_for_element \in BOOLEAN,
       faults \in FaultsAndShot({"wait_for_selector", "text_content"}) :
        /\ last' = Called("get_text", <<locator, wait_for_element, faults>>,
                          Outcome(Finish(GetTextFrom(Running(page, context), locator,
                                                     wait_for_element, faults))))
        /\ page' = GetTextFrom(Running(page, context), locator,
                               wait_for_element, faults).page
        /\ context' = GetTextFrom(Running(page, context), locator,
                                  wait_for_element, faults).context
        /\ UNCHANGED <<transport, sinkUp, pc, loader, disk>>

DoWaitForPageLoad ==
    \E faults \in FaultsAndShot({"wait_for_load_state"}) :
        /\ last' = Called("wait_for_page_load", <<faults>>,
                          Outcome(Finish(WaitForPageLoadFrom(Running(page, context), faults))))
        /\ page' = WaitForPageLoadFrom(Running(page, context), faults).page
        /\ context' = WaitForPageLoadFrom(Running(page, context), faults).context
        /\ UNCHANGED <<transport, sinkUp, pc, loader, disk>>

DoVerifyPageLoaded ==
    \E faults \in FaultsAndShot({"expect"}) :
        /\ last' = Called("verify_page_loaded", <<faults>>,
                          Outcome(Finish(VerifyPageLoadedFrom(Running(page, context), faults))))
        /\ page' = VerifyPageLoadedFrom(Running(page, context), faults).page
        /\ context' = VerifyPageLoadedFrom(Running(page, context), faults).context
        /\ UNCHANGED <<transport, sinkUp, pc, loader, disk>>

NextPage ==
    \/ DoNavigateTo
    \/ DoWaitForElement
    \/ DoClickElement
    \/ DoFillText
    \/ DoGetText
    \/ DoWaitForPageLoad
    \/ DoVerifyPageLoaded

SpecPage == InitPage /\ [][NextPage]_vars

---------------------------------------------------------------------------
(* DataLoader (src/src/utils/data_loader.py)                               *)
(*                                                                         *)
(* A filename is its stem followed by its extensions; the directory of     *)
(* data files maps the names of the files it holds to their text.          *)

\* filename.endswith(suffix)
EndsWith(filename, suffix) == Len(filename) > 0 /\ filename[Len(filename)] = suffix

\* the name load_yaml looks up: filename, or filename + ".yaml"
YamlName(filename) ==
    IF ~EndsWith(filename, ".yaml") /\ ~EndsWith(filename, ".yml")
    THEN Append(filename, ".yaml")
    ELSE filename

\* the name load_json looks up: filename, or filename + ".json"
JsonName(filename) ==
    IF ~EndsWith(filename, ".json") THEN Append(filename, ".json") ELSE filename

\* the text of a file: a JSON object (which is YAML as well), a YAML mapping
\* that is no JSON, nothing at all, or neither YAML nor JSON
FileTexts == {"json", "yaml", "empty", "garbage"}
\* the data a text holds
DataOfText(text) == [kind |-> "data", of |-> text]

\* yaml.safe_load(f): None for an empty file
YamlLoad(text) ==
    CASE text = "garbage" -> Err(Exc("YAMLError", [what |-> "invalid_yaml"]))
      [] text = "empty" -> Val(None)
      [] OTHER -> Val(DataOfText(text))

\* json.load(f)
JsonLoad(text) ==
    IF text = "json" THEN Val(DataOfText(text))
    ELSE Err(Exc("JSONDecodeError", [what |-> "invalid_json"]))

\* open(file_path, "r")
Open(files, name) ==
    IF name \in DOMAIN files THEN Val(files[name])
    ELSE Err(Exc("FileNotFoundError", [what |-> name]))

\* the outcome of a load: what it returns or raises, the cache it leaves,
\* and whether it opened the file
Loaded(out, cache, read) ==
    [kind |-> out.kind, value |-> out.value, exc |-> out.exc, cache |-> cache, read |-> read]

\* the part of load_yaml and load_json after the name is settled: the cache
\* is used when asked for, else the file is opened and parsed, and the data
\* is cached when asked for; every exception is logged and raised again
LoadFrom(cache, files, name, use_cache, parsed) ==
    IF use_cache /\ name \in DOMAIN cache THEN Loaded(Val(cache[name]), cache, FALSE)
    ELSE IF Open(files, name).kind = "raised" THEN Loaded(Open(files, name), cache, TRUE)
    ELSE IF parsed.kind = "raised" THEN Loaded(parsed, cache, TRUE)
    ELSE Loaded(parsed, IF use_cache THEN (name :> parsed.value) @@ cache ELSE cache, TRUE)

ParsedAs(files, name, format) ==
    IF name \notin DOMAIN files THEN Val(None)
    ELSE IF format = "yaml" THEN YamlLoad(files[name]) ELSE JsonLoad(files[name])

\* load_yaml that caches what it read whatever use_cache says
LoadYamlAlwaysCaching(cache, files, filename, use_cache) ==
    LET r == LoadFrom(cache, files, YamlName(filename), TRUE,
                      ParsedAs(files, YamlName(filename), "yaml"))
    IN  IF use_cache THEN r
        ELSE LoadFrom(r.cache, files, YamlName(filename), FALSE,
                      ParsedAs(files, YamlName(filename), "yaml"))

\* load_yaml(filename, use_cache)
LoadYaml(cache, files, filename, use_cache) ==
    LoadFrom(cache, files, YamlName(filename), use_cache,
             ParsedAs(files, YamlName(filename), "yaml"))

\* load_json(filename, use_cache)
LoadJson(cache, files, filename, use_cache) ==
    LoadFrom(cache, files, JsonName(filename), use_cache,
             ParsedAs(files, JsonName(filename), "json"))

\* the filenames the loads are called with, and the directories of data
\* files: users.yaml and users.json, each there or not
Filenames == {<<"users">>, <<"users", ".yaml">>, <<"users", ".yml">>, <<"users", ".json">>}
StoredNames == {<<"users", ".yaml">>, <<"users", ".json">>}
Directories == UNION {[names -> FileTexts] : names \in SUBSET StoredNames}

\* a DataLoader as __init__ leaves it, over some directory of data files
InitLoader ==
    /\ transport = [kind |-> "error", exc |-> "TimeoutError"]
    /\ sinkUp = TRUE
    /\ last = NoCall
    /\ NoBrowser
    /\ loader = [cache |-> <<>>]
    /\ disk \in Directories

DoLoadYaml ==
    \E filename \in Filenames, use_cache \in BOOLEAN :
        /\ last' = Called("load_yaml", <<filename, use_cache>>,
                          LoadYaml(loader.cache, disk, filename, use_cache))
        /\ loader' = [cache |-> LoadYaml(loader.cache, disk, filename, use_cache).cache]
        /\ UNCHANGED <<transport, sinkUp, page, context, pc, disk>>

DoLoadJson ==
    \E filename \in Filenames, use_cache \in BOOLEAN :
        /\ last' = Called("load_json", <<filename, use_cache>>,
                          LoadJson(loader.cache, disk, filename, use_cache))
        /\ loader' = [cache |-> LoadJson(loader.cache, disk, filename, use_cache).cache]
        /\ UNCHANGED <<transport, sinkUp, page, context, pc, disk>>

\* clear_cache(): self._cache.clear()
DoClearCache ==
    /\ last' = Called("clear_cache", <<>>, Loaded(Val(None), <<>>, FALSE))
    /\ loader' = [cache |-> <<>>]
    /\ UNCHANGED <<transport, sinkUp, page, context, pc, disk>>

NextLoader ==
    \/ DoLoadYaml
    \/ DoLoadJson
    \/ DoClearCache

SpecLoader == InitLoader /\ [][NextLoader]_vars

---------------------------------------------------------------------------
(* The response-time tests (src/tests/api/test_airports_count.py,          *)
(* src/tests/api/test_distance_kix_nrt.py): the client is called, the time *)
(* it took is attached with a verdict and then asserted to be below the    *)
(* limit of the test data                                                  *)

\* the steps of a response-time test after the client has answered:
\* allure_reporter.attach_json({..., "performance_acceptable":
\* response_time_ms <= max_response_time}, name), then
\* assertions.assert_less_than(response_time_ms, max_response_time, message)
MeasuredStep(r, sink, name, measured, response_time_ms, max_response_time) ==
    IF r.kind = "raised" THEN r
    ELSE LET report == AttachJson(sink,
                           [response_time_ms |-> response_time_ms,
                            max_allowed_ms |-> max_response_time,
                            measured |-> measured,
                            performance_acceptable |->
                                LessEq(response_time_ms, max_response_time)],
                           name)
             verdict == AssertLessThan(response_time_ms, max_response_time,
                                       JStr("exceeds maximum allowed time"))
         IN  [verdict EXCEPT !.log = r.log \o report.log \o @,
                             !.attached = r.attached \o report.attached \o @,
                             !.requests = r.requests]

\* test_airports_api_response_time_performance
TestAirportsResponseTime(t, sink, response_time_ms, max_response_time) ==
    LET r == GetAllAirports(t, sink)
    IN  MeasuredStep(r, sink, "Performance Test Results",
                     IF r.kind = "raised" THEN None ELSE JNum(Len(r.value)),
                     response_time_ms, max_response_time)

\* test_distance_calculation_api_performance
TestDistanceResponseTime(t, sink, response_time_ms, max_response_time) ==
    LET r == CalculateDistance(t, sink, "KIX", "NRT")
    IN  MeasuredStep(r, sink, "Distance Calculation Performance",
                     IF r.kind = "raised" THEN None ELSE r.value.kilometers,
                     response_time_ms, max_response_time)

\* the times measured and the limits of the test data, in milliseconds
ResponseTimes == {JNum(1999), JNum(2000), JNum(2001)}
TimeLimits == {JNum(2000), JNum(2001)}

DoTestAirportsResponseTime ==
    \E response_time_ms \in ResponseTimes, max_response_time \in TimeLimits :
        /\ last' = Called("test_airports_api_response_time_performance",
                          <<response_time_ms, max_response_time>>,
                          TestAirportsResponseTime(transport, sinkUp, response_time_ms,
                                                   max_response_time))
        /\ UNCHANGED <<transport, sinkUp, page, context, pc, loader, disk>>

DoTestDistanceResponseTime ==
    \E response_time_ms \in ResponseTimes, max_response_time \in TimeLimits :
        /\ last' = Called("test_distance_calculation_api_performance",
                          <<response_time_ms, max_response_time>>,
                          TestDistanceResponseTime(transport, sinkUp, response_time_ms,
                                                   max_response_time))
        /\ UNCHANGED <<transport, sinkUp, page, context, pc, loader, disk>>

NextTests ==
    \/ DoTestAirportsResponseTime
    \/ DoTestDistanceResponseTime

SpecTests == Init /\ [][NextTests]_vars

---------------------------------------------------------------------------
(* What the claims speak of: the response as the server sent it, read      *)
(* from the transport's outcome and not from what the client made of it    *)

Answered == transport.kind = "response"
\* the second read of a text that is not JSON fails
ReadFails ==
    /\ Answered /\ transport.text.kind = "text" /\ transport.text.raw # ""
    /\ transport.text.json = DecodeError /\ transport.text.second = "fails"
\* the request gave a typed response: the transport answered and the body
\* was read
Responded == Answered /\ ~ReadFails
\* the response text is JSON
HasJson ==
    /\ Answered
    /\ transport.text.kind = "text"
    /\ transport.text.raw # ""
    /\ transport.text.json # DecodeError
SentBody == transport.text.json
HasObjectBody == HasJson /\ SentBody.kind = "object"
HasData == HasObjectBody /\ "data" \in DOMAIN SentBody.fields
SentData == SentBody.fields["data"]
StatusOk == Answered /\ transport.status = 200

\* a status-200 response whose body is an object with a `data` array
ListOk == StatusOk /\ HasData /\ SentData.kind = "array"
SentRecords == SentData.items

\* a record is malformed when it is no JSON object
WellFormed(e) == e.kind = "object"
Malformed(e) == ~WellFormed(e)
Count(s, Test(_)) == Cardinality({i \in 1..Len(s) : Test(s[i])})

FieldOr(e, key, default) == IF key \in DOMAIN e.fields THEN e.fields[key] ELSE default
\* the entity a well-formed record stands for, absent fields defaulted
EntityOf(e) ==
    [id |-> FieldOr(e, "id", JStr("")),
     type |-> FieldOr(e, "type", JStr("")),
     attributes |-> FieldOr(e, "attributes", JObj(<<>>))]
\* the entities of the well-formed records, in the order of the response
SentEntities ==
    LET wf == SelectSeq(SentRecords, WellFormed)
    IN  [i \in 1..Len(wf) |-> EntityOf(wf[i])]

Warnings(log) == Count(log, LAMBDA l : l.level = "WARNING" /\ l.tag = "parse_airport")

\* the name and the IATA code of an entity whose attributes are an object
NameOfEntity(e) == FieldOr(e.attributes, "name", JStr(""))
IataOfEntity(e) == FieldOr(e.attributes, "iata", JStr(""))
\* every retrieved airport has attributes that are an object
AllReadable == \A i \in 1..Len(SentEntities) : SentEntities[i].attributes.kind = "object"
\* the names of all retrieved airports, and those that are not empty
AllNames == [i \in 1..Len(SentEntities) |-> NameOfEntity(SentEntities[i])]
NonEmptyNames == SelectSeq(AllNames, LAMBDA n : n # JStr(""))
\* the required names, in order, that equal none of `names`
AbsentFrom(required, names) ==
    SelectSeq(required, LAMBDA r : \A i \in 1..Len(names) : names[i] # JStr(r))

\* the IATA code of e cannot be read as a string
CodeUnreadable(e) == e.attributes.kind # "object" \/ IataOfEntity(e).kind # "string"
\* e has a code equal to `code` ignoring letter case
HasCode(e, code) == ~CodeUnreadable(e) /\ Upper(IataOfEntity(e).s) = Upper(code)

\* the `data` of a distance response is an object; its attributes, with
\* the default of an absent key
HasDistanceData == HasData /\ SentData.kind = "object"
SentAttributes == FieldOr(SentData, "attributes", JObj(<<>>))
HasAttributes == HasDistanceData /\ SentAttributes.kind = "object"
DistanceFields == <<"kilometers", "miles", "nautical_miles">>
\* the distance fields that data.attributes does not hold, in order; all
\* of them when there is no attributes object
AbsentFields ==
    SelectSeq(DistanceFields,
              LAMBDA f : ~HasAttributes \/ f \notin DOMAIN SentAttributes.fields)
\* v is a number or a string that float() reads
Numeric(v) == v.kind = "number" \/ (v.kind = "string" /\ v.s \in DOMAIN NumericStrings)
NumberOf(v) == IF v.kind = "number" THEN v.n ELSE NumericStrings[v.s]
\* o.key is absent or an object
ObjectOrAbsent(o, key) == key \notin DOMAIN o.fields \/ o.fields[key].kind = "object"
\* the relationships of the response can be walked down to the two ends
EndOk(rel, end) ==
    \/ end \notin DOMAIN rel.fields
    \/ rel.fields[end].kind = "object" /\ ObjectOrAbsent(rel.fields[end], "data")
RelationshipsOk ==
    \/ "relationships" \notin DOMAIN SentData.fields
    \/ /\ SentData.fields["relationships"].kind = "object"
       /\ EndOk(SentData.fields["relationships"], "from")
       /\ EndOk(SentData.fields["relationships"], "to")
\* a distance response in which no step of calculate_distance fails
DistanceSound ==
    /\ StatusOk /\ HasAttributes
    /\ AbsentFields = <<>>
    /\ RelationshipsOk
    /\ \A i \in 1..3 : Numeric(SentAttributes.fields[DistanceFields[i]])

\* the conversion factors and the tolerance of the unit check, as parts
\* per million and per cent
MilesPerKm == 621371
NauticalMilesPerKm == 539957
TolerancePercent == 5
Abs(x) == IF x < 0 THEN -x ELSE x
\* |unit/km - factor| <= tolerance * factor, for km > 0; the left side is
\* an integer, so that the bound may be rounded down
WithinTolerance(unit, km, factor) ==
    Abs(unit * 1000000 - factor * km) <= (TolerancePercent * factor * km) \div 100
UnitsConsistent(km, miles, nautical_miles) ==
    /\ WithinTolerance(miles, km, MilesPerKm)
    /\ WithinTolerance(nautical_miles, km, NauticalMilesPerKm)

\* the operations of AssertionHelper, and whether the condition that the
\* last one asserts holds of its arguments
AssertionOps ==
    {"assert_equals", "assert_not_equals", "assert_contains", "assert_list_contains",
     "assert_greater_than", "assert_less_than", "assert_status_code", "assert_response_time"}
ConditionHolds ==
    CASE last.op = "assert_equals" -> Equal(last.args[1], last.args[2])
      [] last.op = "assert_not_equals" -> ~Equal(last.args[1], last.args[2])
      [] last.op = "assert_contains" ->
           IF last.args[3].b THEN IsSubstring(last.args[2], last.args[1])
           ELSE IsSubstring(Lower(last.args[2]), Lower(last.args[1]))
      [] last.op = "assert_list_contains" -> IsItem(last.args[2], last.args[1])
      [] last.op = "assert_greater_than" -> Greater(last.args[1], last.args[2])
      [] last.op = "assert_less_than" -> Less(last.args[1], last.args[2])
      [] last.op = "assert_status_code" -> Equal(last.args[1], last.args[2])
      [] last.op = "assert_response_time" -> ~Greater(last.args[1], last.args[2])
      [] OTHER -> FALSE
\* v is among the values a message shows
Shows(msg, v) == \E i \in 1..Len(msg.shows) : msg.shows[i] = v

\* data.relationships.<end>.data.id of the distance response, or Absent
SentEndpointId(end) ==
    IF "relationships" \notin DOMAIN SentData.fields THEN Absent
    ELSE IF end \notin DOMAIN SentData.fields["relationships"].fields THEN Absent
    ELSE IF "data" \notin DOMAIN SentData.fields["relationships"].fields[end].fields THEN Absent
    ELSE FieldOr(SentData.fields["relationships"].fields[end].fields["data"], "id", Absent)

\* the five supported methods and the transport operation of each
SupportedMethods ==
    ("GET" :> "get") @@ ("POST" :> "post") @@ ("PUT" :> "put") @@
    ("DELETE" :> "delete") @@ ("PATCH" :> "patch")

---------------------------------------------------------------------------
(* Claims *)

\* C1: for a status-200 list response with N records of which M are
\* malformed, get_all_airports returns exactly N - M airports, those of the
\* well-formed records in input order with absent id, type and attributes
\* defaulted; an empty array gives an empty list and no error.
C1_MapsWellFormedRecords ==
    (last.op = "get_all_airports" /\ ListOk) =>
        /\ last.result.kind = "returned"
        /\ Len(last.result.value) = Len(SentRecords) - Count(SentRecords, Malformed)
        /\ last.result.value = SentEntities
        /\ (SentRecords = <<>> => last.result.value = <<>>)

\* C1 witness: a batch of two records, the first malformed and the second
\* lacking fields, mapped to one airport
C1_Witness ==
    /\ last.op = "get_all_airports" /\ ListOk
    /\ Len(SentRecords) = 2
    /\ Malformed(SentRecords[1])
    /\ WellFormed(SentRecords[2]) /\ "id" \notin DOMAIN SentRecords[2].fields
    /\ last.result.kind = "returned"
    /\ Len(last.result.value) = 1

\* C3: get_all_airports raises when the status is not 200, the body is no
\* JSON object, the body has no `data` key or `data` is no list; a
\* malformed element never makes it raise: it is dropped with one warning
\* and the rest of the batch is returned.
C3_RaisesOnShapeOnly ==
    last.op = "get_all_airports" =>
        /\ (Answered /\ ~StatusOk) => last.result.kind = "raised"
        /\ (Answered /\ ~HasObjectBody) => last.result.kind = "raised"
        /\ (Answered /\ HasObjectBody /\ ~HasData) => last.result.kind = "raised"
        /\ (HasData /\ SentData.kind # "array") => last.result.kind = "raised"
        /\ ListOk =>
              /\ last.result.kind = "returned"
              /\ Warnings(last.result.log) = Count(SentRecords, Malformed)
              /\ Len(last.result.value) = Count(SentRecords, WellFormed)

\* C3 witness: a malformed element after a well-formed one is dropped with
\* a warning and the well-formed one is returned
C3_Witness ==
    /\ last.op = "get_all_airports" /\ ListOk
    /\ Len(SentRecords) = 2
    /\ WellFormed(SentRecords[1]) /\ Malformed(SentRecords[2])
    /\ last.result.kind = "returned"
    /\ Warnings(last.result.log) = 1
    /\ last.result.value = <<EntityOf(SentRecords[1])>>

\* C2 as claimed: with the airports fetched and every name readable,
\* verify_airports_exist raises AssertionError iff a required name equals
\* the name of no retrieved airport, the message lists the absent required
\* names as missing and the names of all retrieved airports as available.
C2_AsClaimed ==
    (last.op = "verify_airports_exist" /\ ListOk /\ AllReadable) =>
        LET missing == AbsentFrom(last.args[1], AllNames)
        IN  IF missing # <<>>
            THEN /\ last.result.kind = "raised"
                 /\ last.result.exc.type = "AssertionError"
                 /\ last.result.exc.msg.what = "missing_airports"
                 /\ last.result.exc.msg.missing = missing
                 /\ last.result.exc.msg.available = AllNames
            ELSE last.result.kind = "returned"

\* C2 (amended): with the airports fetched and every name readable,
\* verify_airports_exist raises AssertionError iff a required name equals
\* no non-empty name of a retrieved airport; the message lists all the
\* absent required names as missing and the non-empty names as available;
\* otherwise it returns each required name as found.  A failed fetch or an
\* unreadable name is raised instead.
C2_VerifiesAgainstNonEmptyNames ==
    last.op = "verify_airports_exist" =>
        IF ~ListOk
        THEN /\ last.result.kind = "raised"
             /\ last.result.exc.msg.what # "missing_airports"
        ELSE IF ~AllReadable
        THEN /\ last.result.kind = "raised"
             /\ last.result.exc.type = "AttributeError"
        ELSE LET missing == AbsentFrom(last.args[1], NonEmptyNames)
             IN  IF missing # <<>>
                 THEN /\ last.result.kind = "raised"
                      /\ last.result.exc.type = "AssertionError"
                      /\ last.result.exc.msg.what = "missing_airports"
                      /\ last.result.exc.msg.missing = missing
                      /\ last.result.exc.msg.available = NonEmptyNames
                 ELSE /\ last.result.kind = "returned"
                      /\ DOMAIN last.result.value =
                             {last.args[1][i] : i \in 1..Len(last.args[1])}
                      /\ \A name \in DOMAIN last.result.value : last.result.value[name]

\* C2 witness: two required names are absent, one differing from a
\* retrieved name only in letter case, while an airport without a name
\* was retrieved; both are listed as missing
C2_Witness ==
    /\ last.op = "verify_airports_exist" /\ ListOk /\ AllReadable
    /\ last.args[1] = <<"A", "">>
    /\ \E i \in 1..Len(AllNames) : AllNames[i] = JStr("a")
    /\ \E i \in 1..Len(AllNames) : AllNames[i] = JStr("")
    /\ last.result.kind = "raised"
    /\ last.result.exc.msg.missing = <<"A", "">>
    /\ last.result.exc.msg.available = <<JStr("a")>>

\* C4 as claimed: get_airport_by_iata_code never raises, and returns None
\* on a request failure, a status other than 200, a malformed body, and
\* whenever a retrieved airport has attributes that cannot be read.
C4_AsClaimed ==
    last.op = "get_airport_by_iata_code" =>
        /\ last.result.kind = "returned"
        /\ ~ListOk => last.result.value = None
        /\ (ListOk /\ ~AllReadable) => last.result.value = None

\* C4 (amended): get_airport_by_iata_code never raises; it returns None on
\* a request failure, a status other than 200, a malformed body, and when
\* the scan meets an airport whose code cannot be read before it meets a
\* matching one.
C4_NeverRaises ==
    last.op = "get_airport_by_iata_code" =>
        /\ last.result.kind = "returned"
        /\ ~ListOk => last.result.value = None
        /\ (/\ ListOk
            /\ \E i \in 1..Len(SentEntities) :
                  /\ CodeUnreadable(SentEntities[i])
                  /\ \A j \in 1..(i - 1) : ~HasCode(SentEntities[j], last.args[1]))
           => last.result.value = None

\* C4 witness: an airport whose attributes are null comes before a
\* matching airport, and the lookup returns None
C4_Witness ==
    /\ last.op = "get_airport_by_iata_code" /\ ListOk
    /\ Len(SentEntities) = 2
    /\ SentEntities[1].attributes = JNull
    /\ HasCode(SentEntities[2], last.args[1])
    /\ last.result.kind = "returned"
    /\ last.result.value = None

\* C5 as claimed: when the fetch succeeds, get_airport_by_iata_code returns
\* the first airport in response order whose code equals the argument
\* ignoring letter case, and None exactly when no retrieved airport has
\* such a code.
C5_AsClaimed ==
    (last.op = "get_airport_by_iata_code" /\ ListOk) =>
        LET hits == {i \in 1..Len(SentEntities) : HasCode(SentEntities[i], last.args[1])}
        IN  /\ last.result.kind = "returned"
            /\ IF hits = {} THEN last.result.value = None
               ELSE last.result.value =
                        SentEntities[CHOOSE i \in hits : \A j \in hits : i <= j]

\* C6: whenever a step of calculate_distance fails, the call raises (it
\* returns no value), the last attachment is the 'Distance Calculation
\* Error' diagnostic with the two input codes and the type name of the
\* exception, and the exception raised is the one of the failing step.
C6_FailureIsReportedAndPropagated ==
    last.op = "calculate_distance" =>
        /\ ~DistanceSound => last.result.kind = "raised"
        /\ last.result.kind = "raised" =>
              /\ last.result.value = None
              /\ last.result.attached # <<>>
              /\ LET diagnostic == last.result.attached[Len(last.result.attached)]
                 IN  /\ diagnostic.name = "Distance Calculation Error"
                     /\ diagnostic.payload.from_airport = last.args[1]
                     /\ diagnostic.payload.to_airport = last.args[2]
                     /\ diagnostic.payload.error_type = last.result.exc.type
                     /\ diagnostic.payload.error = last.result.exc.msg
        /\ ~Answered => last.result.exc.type = transport.exc
        /\ ReadFails => last.result.exc = TextError
        /\ (Responded /\ ~StatusOk) =>
              /\ last.result.exc.type = "AssertionError"
              /\ last.result.exc.msg.what = "status"
              /\ last.result.exc.msg.actual = transport.status
        /\ (Responded /\ StatusOk /\ ~HasObjectBody) =>
              /\ last.result.exc.type = "AssertionError"
              /\ last.result.exc.msg.what = "expected_json"
        /\ (StatusOk /\ HasObjectBody /\ ~HasData) =>
              /\ last.result.exc.type = "AssertionError"
              /\ last.result.exc.msg.what = "missing_keys"
        /\ (StatusOk /\ HasAttributes /\ AbsentFields # <<>>) =>
              /\ last.result.exc.type = "AssertionError"
              /\ last.result.exc.msg.what = "missing_fields"
        /\ (/\ StatusOk /\ HasAttributes /\ AbsentFields = <<>> /\ RelationshipsOk
            /\ SentAttributes.fields["kilometers"].kind = "string"
            /\ ~Numeric(SentAttributes.fields["kilometers"])) =>
              last.result.exc.type = "ValueError"

\* C6 witness: a response whose kilometers is a string that is no number
\* makes the call raise the ValueError of the conversion, after the error
\* diagnostic was attached
C6_Witness ==
    /\ last.op = "calculate_distance"
    /\ StatusOk /\ HasAttributes /\ AbsentFields = <<>> /\ RelationshipsOk
    /\ SentAttributes.fields["kilometers"] = JStr("abc")
    /\ last.result.kind = "raised"
    /\ last.result.exc.type = "ValueError"
    /\ Len(last.result.attached) = 1
    /\ last.result.attached[1].name = "Distance Calculation Error"
    /\ last.result.attached[1].payload.error_type = "ValueError"

\* C7 as claimed: for a status-200 distance response with a `data` key,
\* calculate_distance fails when a distance field is absent from
\* data.attributes (also when there is no attributes object), the failure
\* names every absent field, and a result is built only when none is.
C7_AsClaimed ==
    (last.op = "calculate_distance" /\ StatusOk /\ HasData) =>
        /\ AbsentFields # <<>> =>
              /\ last.result.kind = "raised"
              /\ last.result.exc.msg.what = "missing_fields"
              /\ last.result.exc.msg.missing = AbsentFields
        /\ last.result.kind = "returned" => AbsentFields = <<>>

\* C8: for every response whose status is not 200, whatever its body,
\* calculate_distance raises the status failure and returns no
\* DistanceCalculation.
C8_RaisesOnStatus ==
    (last.op = "calculate_distance" /\ Answered /\ transport.status # 200) =>
        /\ last.result.kind = "raised"
        /\ last.result.value = None
        /\ Responded =>
              /\ last.result.exc.type = "AssertionError"
              /\ last.result.exc.msg.what = "status"

\* C8 witness: a response that is sound but for its status 201 is refused
C8_Witness ==
    /\ last.op = "calculate_distance"
    /\ Answered /\ transport.status = 201
    /\ HasAttributes /\ AbsentFields = <<>> /\ RelationshipsOk
    /\ \A i \in 1..3 : Numeric(SentAttributes.fields[DistanceFields[i]])
    /\ last.result.kind = "raised"
    /\ last.result.exc.msg.actual = 201

C10_AsClaimed ==
    (last.op = "get_all_airports" /\ last.result.kind = "returned") =>
        \A i \in 1..Len(last.result.value) :
            LET e == last.result.value[i]
                name == AirportName(e)
            IN  /\ name.kind = "returned"
                /\ name.value = JStr("") <=>
                      \/ "name" \notin DOMAIN e.attributes.fields
                      \/ e.attributes.fields["name"] = JStr("")

\* C11 as claimed: the body of the APIResponse that _make_request builds is
\* never null: "" for an empty text, the raw text for text that is not
\* JSON, the parsed value for text that is JSON of any kind.
C11_AsClaimed ==
    (last.op = "_make_request" /\ last.result.kind = "returned") =>
        /\ last.result.value.body # JNull
        /\ last.result.value.body # None
        /\ (transport.text.kind = "text" /\ transport.text.raw = "") =>
              last.result.value.body = JStr("")
        /\ (transport.text.kind = "text" /\ transport.text.raw # "" /\ ~HasJson) =>
              last.result.value.body = JStr(transport.text.raw)
        /\ HasJson => last.result.value.body = SentBody

\* C12 as claimed: _parse_response_body never raises, whatever text() does
\* on each of its invocations.
C12_AsClaimed ==
    last.op = "_parse_response_body" => last.result.kind = "returned"

\* C20: verify_response_status(response, expected) raises iff the status
\* of the response differs from expected, with an AssertionError whose
\* message holds the expected and the actual status; when they are equal
\* it returns None.
C20_RaisesIffStatusDiffers ==
    last.op = "verify_response_status" =>
        IF transport.status # last.args[1]
        THEN /\ last.result.kind = "raised"
             /\ last.result.exc.type = "AssertionError"
             /\ last.result.exc.msg.expected = last.args[1]
             /\ last.result.exc.msg.actual = transport.status
        ELSE /\ last.result.kind = "returned"
             /\ last.result.value = None

\* C20 witness: status 404 verified against 200 fails with a message that
\* holds 404 and 200
C20_Witness ==
    /\ last.op = "verify_response_status"
    /\ transport.status = 404 /\ last.args[1] = 200
    /\ last.result.kind = "raised"
    /\ last.result.exc.msg.actual = 404
    /\ last.result.exc.msg.expected = 200

\* C13 as claimed: a failing reporting sink never changes the outcome of
\* the operation that attaches a diagnostic: get_all_airports,
\* verify_airports_exist, calculate_distance and attach_json return the
\* same value or raise the same failure as with a sink that works.
C13_AsClaimed ==
    LET SameOutcome(r) ==
            /\ last.result.kind = r.kind
            /\ last.result.value = r.value
            /\ last.result.exc = r.exc
    IN  /\ last.op = "get_all_airports" => SameOutcome(GetAllAirports(transport, TRUE))
        /\ last.op = "verify_airports_exist" =>
              SameOutcome(VerifyAirportsExist(transport, TRUE, last.args[1]))
        /\ last.op = "calculate_distance" =>
              SameOutcome(CalculateDistance(transport, TRUE, last.args[1], last.args[2]))
        /\ last.op = "attach_json" =>
              SameOutcome(AttachJson(TRUE, last.args[1], "JSON Data"))

C15_AsClaimed ==
    (/\ last.op \in AssertionOps
     /\ last.result.kind = "raised"
     /\ last.result.exc.type = "AssertionError") =>
        /\ last.result.exc.msg.what # "custom"
        /\ Shows(last.result.exc.msg, last.args[1])
        /\ Shows(last.result.exc.msg, last.args[2])

\* C16 as claimed: every AssertionHelper operation, whatever its reporting
\* collaborator does, returns None when its condition holds and raises
\* AssertionError, and nothing else, when it does not.
C16_AsClaimed ==
    last.op \in AssertionOps =>
        \/ last.result.kind = "returned" /\ last.result.value = None
        \/ last.result.kind = "raised" /\ last.result.exc.type = "AssertionError"

C18_AsClaimed ==
    /\ last.op = "assert_greater_than" =>
          (last.result.kind = "returned" <=> Greater(last.args[1], last.args[2]))
    /\ last.op = "assert_less_than" =>
          (last.result.kind = "returned" <=> Less(last.args[1], last.args[2]))

\* C19: assert_response_time raises, an AssertionError, iff
\* actual_ms > max_ms; a time equal to the limit passes.
C19_FailsIffOverLimit ==
    last.op = "assert_response_time" =>
        /\ last.result.kind = "raised" <=> Greater(last.args[1], last.args[2])
        /\ last.result.kind = "raised" => last.result.exc.type = "AssertionError"
        /\ last.result.kind = "returned" => last.result.value = None

\* C19 witness: a response time equal to the limit passed
C19_Witness ==
    /\ last.op = "assert_response_time"
    /\ last.args[1] = JNum(5) /\ last.args[2] = JNum(5)
    /\ last.result.kind = "returned"

\* C21: verify_response_contains_keys fails when the body is no JSON
\* object; otherwise it fails iff a required key is absent from the body,
\* and the failure lists every absent key and the keys that are present;
\* the response is as it was before the call.
C21_FailsIffKeyAbsent ==
    last.op = "verify_response_contains_keys" =>
        LET body == last.args[1].body
            absent == SelectSeq(last.args[2], LAMBDA key : key \notin DOMAIN body.fields)
        IN  /\ last.args[1] = Get(transport).value
            /\ IF body.kind # "object"
               THEN /\ last.result.kind = "raised"
                    /\ last.result.exc.type = "AssertionError"
                    /\ last.result.exc.msg.what = "not_object"
               ELSE IF absent # <<>>
               THEN /\ last.result.kind = "raised"
                    /\ last.result.exc.type = "AssertionError"
                    /\ last.result.exc.msg.missing = absent
                    /\ last.result.exc.msg.available = DOMAIN body.fields
               ELSE /\ last.result.kind = "returned"
                    /\ last.result.value = None

\* C21 witness: two required keys are absent from an object body that
\* holds another key, and both are listed
C21_Witness ==
    /\ last.op = "verify_response_contains_keys"
    /\ last.args[2] = <<"meta", "errors">>
    /\ last.args[1].body.kind = "object"
    /\ DOMAIN last.args[1].body.fields = {"data"}
    /\ last.result.kind = "raised"
    /\ last.result.exc.msg.missing = <<"meta", "errors">>
    /\ last.result.exc.msg.available = {"data"}

\* C22: a request whose method, letter case ignored, is none of GET,
\* POST, PUT, DELETE, PATCH fails with ValueError and no call reaches the
\* transport; each supported method makes exactly one call, of the
\* transport operation of that name.
C22_MethodSelectsOperation ==
    /\ last.op \in {"_execute_request", "_make_request"} =>
          IF Upper(last.args[1]) \in DOMAIN SupportedMethods
          THEN last.result.requests = 1
          ELSE /\ last.result.kind = "raised"
               /\ last.result.exc.type = "ValueError"
               /\ last.result.requests = 0
    /\ (last.op = "_execute_request" /\ Upper(last.args[1]) \in DOMAIN SupportedMethods) =>
          IF last.result.kind = "returned"
          THEN last.result.value.via = SupportedMethods[Upper(last.args[1])]
          ELSE last.result.exc.msg.via = SupportedMethods[Upper(last.args[1])]

\* C22 witness: a TRACE request has failed with ValueError while the
\* transport, which would have answered, was not called
C22_Witness ==
    /\ last.op = "_make_request"
    /\ last.args[1] = "TRACE"
    /\ Answered
    /\ last.result.kind = "raised"
    /\ last.result.exc.type = "ValueError"
    /\ last.result.requests = 0

\* C23: in the DistanceCalculation that calculate_distance(from, to)
\* returns, each endpoint has the id of data.relationships.<end>.data when
\* the response holds one and the caller's code of that end otherwise, and
\* its iata_code is the caller's code.
C23_EndpointIdentity ==
    (last.op = "calculate_distance" /\ last.result.kind = "returned") =>
        /\ last.result.value.from_airport.id =
               (IF SentEndpointId("from") = Absent THEN JStr(last.args[1])
                ELSE SentEndpointId("from"))
        /\ last.result.value.to_airport.id =
               (IF SentEndpointId("to") = Absent THEN JStr(last.args[2])
                ELSE SentEndpointId("to"))
        /\ AirportIataCode(last.result.value.from_airport) = Val(JStr(last.args[1]))
        /\ AirportIataCode(last.result.value.to_airport) = Val(JStr(last.args[2]))

\* C23 witness: the response names the `from` end only, and the result
\* has that id for it and the caller's code for the `to` end
C23_Witness ==
    /\ last.op = "calculate_distance"
    /\ last.result.kind = "returned"
    /\ SentEndpointId("from") = JStr("12")
    /\ SentEndpointId("to") = Absent
    /\ last.result.value.from_airport.id = JStr("12")
    /\ last.result.value.to_airport.id = JStr(last.args[2])
    /\ AirportIataCode(last.result.value.from_airport) = Val(JStr(last.args[1]))

\* C24: get_airports_count depends on the response to its own request
\* only: whatever call came before it on the client, it fails exactly when
\* get_all_airports fails on that response and otherwise returns the number
\* of airports get_all_airports maps from it, the same number that a
\* get_all_airports call answered alike has just returned.
C24_CountDependsOnResponseOnly ==
    [][last'.op = "get_airports_count" =>
          /\ last'.result.kind = GetAllAirports(transport', sinkUp').kind
          /\ last'.result.exc = GetAllAirports(transport', sinkUp').exc
          /\ last'.result.kind = "returned" =>
                /\ last'.result.value = Len(GetAllAirports(transport', sinkUp').value)
                /\ last'.result.value = Len(SentEntities')
          /\ \A op \in {"get_all_airports", "get_airport_names", "verify_airports_exist",
                        "get_airport_by_iata_code", "calculate_distance"} :
                (last.op = op /\ ListOk) =>
                    /\ last'.result.kind = "returned"
                    /\ last'.result.value = Len(SentEntities)
          /\ (last.op = "get_all_airports" /\ last.result.kind = "returned") =>
                last'.result.value = Len(last.result.value)]_vars

\* C24 witness: a count of one airport mapped from a response of two
\* records, one of them malformed
C24_Witness ==
    /\ last.op = "get_airports_count"
    /\ ListOk /\ Len(SentRecords) = 2
    /\ Count(SentRecords, Malformed) = 1
    /\ last.result.kind = "returned"
    /\ last.result.value = 1

\* C25: get_all_airports and calculate_distance check the status, then
\* that the body is an object, then that it has a `data` key, and map only
\* after that: a response fails with the failure of the earliest check it
\* violates, and nothing is mapped or returned before all three pass.
C25_ChecksInOrder ==
    (last.op \in {"get_all_airports", "calculate_distance"} /\ Responded) =>
        LET early == {"status", "expected_json", "missing_keys"}
            Fails(what) ==
                /\ last.result.kind = "raised"
                /\ last.result.exc.type = "AssertionError"
                /\ last.result.exc.msg.what = what
                /\ last.result.value = None
                /\ Warnings(last.result.log) = 0
                /\ \A i \in 1..Len(last.result.attached) :
                      last.result.attached[i].name = "Distance Calculation Error"
        IN  IF ~StatusOk THEN Fails("status")
            ELSE IF ~HasObjectBody THEN Fails("expected_json")
            ELSE IF ~HasData THEN Fails("missing_keys")
            ELSE last.result.kind = "raised" => last.result.exc.msg.what \notin early

\* C25 witness: a 404 response whose body is no object has failed
\* get_all_airports with the status mismatch
C25_Witness ==
    /\ last.op = "get_all_airports"
    /\ Responded /\ transport.status = 404 /\ ~HasObjectBody
    /\ last.result.kind = "raised"
    /\ last.result.exc.msg.what = "status"
    /\ last.result.exc.msg.actual = 404

---------------------------------------------------------------------------
(* C26: clear_cart removes items one by one until the cart is empty: from  *)
(* any cart with finitely many items it eventually returns, and whenever   *)
(* it returns normally the cart page holds no items.                       *)

\* C26, as claimed, the state clear_cart returns in: a clear_cart that
\* returned normally on the cart page left no item in the cart
C26_ReturnsWithEmptyCart ==
    (pc = Idle /\ last.op = "clear_cart" /\ last.result.kind = "returned"
        /\ page.url = CartUrl)
        => page.items = <<>>

\* C26, termination: a clear_cart that was called returns or raises
C26_Terminates == (pc # Idle) ~> (pc = Idle)

---------------------------------------------------------------------------
(* C27: proceed_to_checkout and remove_first_item, called when             *)
(* get_cart_items_count reports an empty cart, raise ValueError without    *)
(* clicking any button, so the cart contents and the current page are left *)
(* unchanged.                                                              *)

\* C27: a step of proceed_to_checkout or remove_first_item taken when the
\* count of cart items reads 0 raises ValueError, clicks nothing and leaves
\* the page, its URL and the cart as they were
C27_EmptyCartRaisesWithoutClick ==
    [][(/\ pc = Idle /\ pc' = Idle
        /\ last'.op \in {"proceed_to_checkout", "remove_first_item"}
        /\ GetCartItemsCount(page, last'.args[1]) = 0)
       => (/\ last'.result.kind = "raised"
           /\ last'.result.exc.type = "ValueError"
           /\ last'.result.clicked = <<>>
           /\ page' = page)]_vars

C27_Witness ==
    /\ last.op = "proceed_to_checkout"
    /\ last.result.kind = "raised" /\ last.result.exc.type = "ValueError"
    /\ last.result.clicked = <<>>
    /\ page.url = CartUrl /\ page.items = <<>>

---------------------------------------------------------------------------
(* C28: After any sequence of load_yaml, load_json and clear_cache calls   *)
(* on a DataLoader, the cache holds an entry for a normalized filename     *)
(* only if a use_cache=True load of that filename succeeded since the last *)
(* clear_cache; a cached filename is never read from disk again until      *)
(* clear_cache, a load with use_cache=False neither reads nor writes the   *)
(* cache, and a failed load leaves the cache unchanged.                    *)

\* the step taken is a load; the name it looks up; the use_cache it is given
IsLoad(call) == call.op \in {"load_yaml", "load_json"}
NameOfLoad(call) ==
    IF call.op = "load_yaml" THEN YamlName(call.args[1]) ELSE JsonName(call.args[1])
UsesCache(call) == call.args[2]

\* an entry enters the cache only by a successful use_cache=True load of its
\* name, and clear_cache empties the cache
EntersByCachingLoad ==
    /\ \A name \in DOMAIN loader'.cache \ DOMAIN loader.cache :
           /\ IsLoad(last') /\ UsesCache(last') /\ last'.result.kind = "returned"
           /\ name = NameOfLoad(last')
    /\ last'.op = "clear_cache" => loader'.cache = <<>>
\* a load with use_cache=False opens the file, returns what the file holds
\* and leaves the cache as it was
BypassesCache ==
    (IsLoad(last') /\ ~UsesCache(last')) =>
        /\ loader'.cache = loader.cache
        /\ last'.result.read
        /\ last'.result.kind = "returned" =>
               last'.result.value \in {None} \cup {DataOfText(disk[NameOfLoad(last')])}
\* a load that raises leaves the cache as it was
FailureKeepsCache ==
    (IsLoad(last') /\ last'.result.kind = "raised") => loader'.cache = loader.cache

\* C28, as claimed: entries enter the cache by successful use_cache=True
\* loads only, no load of a cached name opens the file, a use_cache=False
\* load leaves the cache alone and so does a failed load
C28_AsClaimed ==
    [][/\ EntersByCachingLoad
       /\ (IsLoad(last') /\ NameOfLoad(last') \in DOMAIN loader.cache) => ~last'.result.read
       /\ BypassesCache
       /\ FailureKeepsCache]_vars

\* C28, amended: entries enter the cache by successful use_cache=True loads
\* only, a use_cache=True load of a cached name returns the cached data
\* without opening the file, a use_cache=False load opens the file whether
\* the name is cached or not and leaves the cache alone, and so does a
\* failed load
C28_CacheDiscipline ==
    [][/\ EntersByCachingLoad
       /\ (IsLoad(last') /\ UsesCache(last') /\ NameOfLoad(last') \in DOMAIN loader.cache) =>
              /\ ~last'.result.read
              /\ last'.result.kind = "returned"
              /\ last'.result.value = loader.cache[NameOfLoad(last')]
              /\ loader'.cache = loader.cache
       /\ BypassesCache
       /\ FailureKeepsCache]_vars

C28_Witness ==
    /\ last.op = "load_json" /\ last.args[2] /\ last.result.kind = "returned"
    /\ ~last.result.read
    /\ JsonName(last.args[1]) \in DOMAIN loader.cache

---------------------------------------------------------------------------
(* C29: When a BasePage operation (navigate_to, wait_for_element,          *)
(* click_element, fill_text, get_text, wait_for_page_load,                 *)
(* verify_page_loaded) fails, the exception that reaches the caller is the *)
(* original failure even when taking the failure screenshot itself fails:  *)
(* _take_screenshot never raises, and it sets context.screenshot_path only *)
(* when the screenshot was saved.                                          *)

BasePageOperations ==
    {"navigate_to", "wait_for_element", "click_element", "fill_text", "get_text",
     "wait_for_page_load", "verify_page_loaded"}
\* the calls that were made to fail during a call: its last argument
FaultsOf(call) == call.args[Len(call.args)]
\* the failures an operation can meet on its own: a Playwright call of its
\* body that raises, an expectation or the URL test that does not hold
OwnFailures ==
    {PlaywrightError(c) : c \in {"goto", "wait_for_load_state", "wait_for_selector",
                                 "click", "clear", "fill", "text_content"}}
    \cup {ExpectationError(w) : w \in {"to_be_enabled", "url_pattern", "to_have_title"}}

\* C29: in every step of a BasePage operation, an operation that raises
\* raises a failure of its own body and never that of the screenshot; when
\* the screenshot fails nothing is saved and context.screenshot_path stays
\* as it was; when it works, context.screenshot_path is the path of the
\* file saved last; an operation that returns takes no screenshot
C29_FailureSurvivesScreenshot ==
    [][last'.op \in BasePageOperations =>
        /\ last'.result.kind = "raised" =>
              /\ last'.result.exc \in OwnFailures
              /\ last'.result.exc # PlaywrightError("screenshot")
        /\ "screenshot" \in FaultsOf(last') =>
              /\ last'.result.shots = <<>>
              /\ context' = context
        /\ (last'.result.kind = "raised" /\ "screenshot" \notin FaultsOf(last')) =>
              /\ last'.result.shots # <<>>
              /\ context' = last'.result.shots[Len(last'.result.shots)]
        /\ last'.result.kind = "returned" =>
              /\ last'.result.shots = <<>>
              /\ context' = context]_vars

C29_Witness ==
    /\ last.op = "click_element"
    /\ last.result.kind = "raised" /\ last.result.exc = PlaywrightError("click")
    /\ "screenshot" \in FaultsOf(last)
    /\ last.result.shots = <<>> /\ context = None

---------------------------------------------------------------------------
(* C30: In the response-time tests the attached performance_acceptable     *)
(* flag and the verdict of the assertion that follows agree for every      *)
(* measured time and every limit: the flag is true exactly when the        *)
(* assertion passes.                                                       *)

PerformanceReports == {"Performance Test Results", "Distance Calculation Performance"}
ResponseTimeTests ==
    {"test_airports_api_response_time_performance",
     "test_distance_calculation_api_performance"}

\* C30, as claimed: whenever a response-time test attached its report, the
\* performance_acceptable flag of the report is true exactly when the
\* assertion that follows passed
C30_FlagAgreesWithAssertion ==
    last.op \in ResponseTimeTests =>
        \A i \in 1..Len(last.result.attached) :
            last.result.attached[i].name \in PerformanceReports =>
                (last.result.attached[i].payload.performance_acceptable
                    <=> last.result.kind = "returned")

====
